---------------------------- MODULE Spec2Model ----------------------------
(***************************************************************************)
(* A model of ghostwriter's LLM response parsing engine and of the CLI     *)
(* workflows that are gated by its results.                                *)
(*                                                                         *)
(* A text is a sequence of atoms.  An atom is a TLA+ string that stands    *)
(* for itself: a single character the regular expressions of the source    *)
(* look at one by one ("*", "-", ":", "(", ")", " ", "\n", a digit) or a   *)
(* word that every regular expression of the source matches or skips as a  *)
(* whole ("Figure", "Writing Style", "Twain", ...).  The Python string a   *)
(* text stands for is the concatenation of its atoms.                      *)
(***************************************************************************)
EXTENDS Integers, Sequences, FiniteSets, TLC

VARIABLES
    op,            \* the operation that ran last ("idle" before any)
    blocks,        \* what the text-generation step is about to say
    layout,        \* how it lays the text out: indentation, preamble
    response,      \* what adapter.generate_text returned: None, Some(text)
    outcome,       \* how the operation ended: "none" yet, "returned",
                   \* "api_error" (generate_text raised, caught), "ValueError"
    figures,       \* the list returned by a figure-list operation
    examples,      \* the list returned by an example-parsing operation
    console,       \* the errors and notices printed on the console so far
    verification,  \* what verify_figure returned: None, Some(record)
    analysis,      \* what analyze_figure returned: None, Some(record)
    pc,            \* where a CLI workflow stands ("none": no workflow runs)
    calls,         \* the researcher operations a workflow has called, in order
    asked,         \* the questions a workflow has asked, with the answers
    retval         \* what a parsing or checking function returned: None,
                   \* Some(value)

vars == <<op, blocks, layout, response, outcome, figures, examples, console,
          verification, analysis, pc, calls, asked, retval>>

inputVars == <<blocks, layout>>

flowVars == <<pc, calls, asked>>

-----------------------------------------------------------------------------
(* Bounds of the model                                                     *)

MaxFigures == 2

MaxExamples == 2

-----------------------------------------------------------------------------
(* Python's str and re primitives over texts                               *)

Min(S) == CHOOSE x \in S : \A y \in S : x <= y
Max(S) == CHOOSE x \in S : \A y \in S : x >= y

\* Python's None / a value, for Optional[str]
None == <<>>
Some(v) == <<v>>

\* an Optional[str] x used as it is, None read as the empty string
OrNothing(x, default) == IF Len(x) = 0 THEN <<>> ELSE x[1]

\* no operation has run yet
Idle ==
    /\ op = "idle"
    /\ response = None
    /\ outcome = "none"
    /\ figures = <<>>
    /\ examples = <<>>
    /\ console = {}
    /\ verification = None
    /\ analysis = None
    /\ pc = "none"
    /\ calls = <<>>
    /\ asked = <<>>
    /\ retval = None

\* Python's "x or default" for an Optional[str] x
OrDefault(x, default) ==
    IF Len(x) = 0 \/ Len(x[1]) = 0 THEN default ELSE x[1]

\* \s of the regular expressions, and the characters str.strip() removes
Ws == {" ", "\n"}

\* \d
Digits == {"1", "2", "3", "7"}

\* str.upper() of one atom; re.IGNORECASE compares the upper-cased atoms
Upper(a) ==
    CASE a = "verified" -> "VERIFIED"
      [] a = "Verified" -> "VERIFIED"
      [] a = "unknown" -> "UNKNOWN"
      [] a = "Status" -> "STATUS"
      [] a = "status" -> "STATUS"
      [] a = "Reason" -> "REASON"
      [] a = "good" -> "GOOD"
      [] a = "Writing Style" -> "WRITING STYLE"
      [] a = "writing style" -> "WRITING STYLE"
      [] a = "User prompt" -> "USER PROMPT"
      [] a = "user prompt" -> "USER PROMPT"
      [] a = "Assistant response" -> "ASSISTANT RESPONSE"
      [] a = "assistant response" -> "ASSISTANT RESPONSE"
      [] a = "Example" -> "EXAMPLE"
      [] a = "Concerns" -> "CONCERNS"
      [] a = "None" -> "NONE"
      [] a = "notes" -> "NOTES"
      [] a = "tone analysis" -> "TONE ANALYSIS"
      [] OTHER -> a

\* the atoms that are words: letters and inner spaces only
Words ==
    {"TONE ANALYSIS", "VOICE AND PERSPECTIVE", "FORMALITY LEVEL",
     "LENGTH AND STRUCTURE", "UNIQUE CHARACTERISTICS", "TOPICS AND THEMES",
     "HISTORICAL CONTEXT", "tone analysis", "Note", "notes", "Status", "status",
     "Reason", "Concerns", "None", "good", "verified", "Verified", "unknown",
     "VERIFIED", "UNVERIFIED", "INAPPROPRIATE", "Here", "are", "some"}

\* a text left as it is
unchanged(t) == t

\* str.upper()
upper(t) == [i \in 1..Len(t) |-> Upper(t[i])]

\* the literal lit occurs in t at index i (ci: under re.IGNORECASE)
MatchLit(t, i, lit, ci) ==
    /\ i >= 1
    /\ i + Len(lit) - 1 <= Len(t)
    /\ \A k \in 1..Len(lit) :
          IF ci THEN Upper(t[i + k - 1]) = Upper(lit[k])
                ELSE t[i + k - 1] = lit[k]

\* the first index from i on whose atom is in S, Len(t) + 1 when there is none
RECURSIVE FirstIn(_, _, _)
FirstIn(t, i, S) ==
    IF i > Len(t) \/ t[i] \in S THEN i ELSE FirstIn(t, i + 1, S)

\* the first index from i on whose atom is not in S, Len(t) + 1 when none
RECURSIVE FirstNotIn(_, _, _)
FirstNotIn(t, i, S) ==
    IF i > Len(t) \/ t[i] \notin S THEN i ELSE FirstNotIn(t, i + 1, S)

\* the index after the run of whitespace that starts at w (greedy \s*)
WsEnd(t, w) == FirstNotIn(t, w, Ws)

\* str.strip()
strip(t) ==
    LET keep == {i \in 1..Len(t) : t[i] \notin Ws}
    IN  IF keep = {} THEN <<>> ELSE SubSeq(t, Min(keep), Max(keep))

\* the lookahead (?=\n\s*[\*\-]|\Z) of _extract_field at index e
LookField(t, e) ==
    \/ e = Len(t) + 1
    \/ /\ e <= Len(t)
       /\ t[e] = "\n"
       /\ LET q == WsEnd(t, e + 1) IN q <= Len(t) /\ t[q] \in {"*", "-"}

\* the lookahead (?=\nAssistant response:) of user_pattern at index e
LookUser(t, e) ==
    /\ e <= Len(t)
    /\ t[e] = "\n"
    /\ MatchLit(t, e + 1, <<"Assistant response", ":">>, TRUE)

\* the lookahead (?=\n\*\*EXAMPLE|\Z) of assistant_pattern at index e
LookAssistant(t, e) ==
    \/ e = Len(t) + 1
    \/ /\ e <= Len(t)
       /\ t[e] = "\n"
       /\ MatchLit(t, e + 1, <<"*", "*", "EXAMPLE">>, TRUE)

\* the lookahead (?=\n\*\*[A-Z][A-Z ]*:\*\*|\Z) of _extract_section at index
\* e; under re.IGNORECASE [A-Z] takes a letter of either case
LookSection(t, e) ==
    \/ e = Len(t) + 1
    \/ /\ e <= Len(t)
       /\ t[e] = "\n"
       /\ MatchLit(t, e + 1, <<"*", "*">>, FALSE)
       /\ e + 3 <= Len(t)
       /\ t[e + 3] \in Words
       /\ LET c == FirstNotIn(t, e + 3, Words \cup {" "})
          IN  MatchLit(t, c, <<":", "*", "*">>, FALSE)

\* the field names of STYLE_GUIDE_GENERATION_TEMPLATE
StyleLabels ==
    {"TONE", "VOICE", "FORMALITY", "LENGTH_PREFERENCE", "PREFERRED_TOPICS",
     "AVOID_TOPICS", "WRITING_STYLE_NOTES"}

\* [A-Z_] under re.IGNORECASE: the letters of either case and "_"; a field
\* name is a run of them
Letters ==
    {"a", "b", "c", "d", "e", "f", "g", "h", "i", "j", "k", "l", "m", "n",
     "o", "p", "q", "r", "s", "t", "u", "v", "w", "x", "y", "z", "W", "N",
     "A", "S", "F", "V", "M", "T", "B", "D", "K", "J", "_"}
      \cup StyleLabels

\* the lookahead (?=\n\*\*|\Z) of _extract_style_field at index e
LookBold(t, e) ==
    \/ e = Len(t) + 1
    \/ /\ e <= Len(t)
       /\ t[e] = "\n"
       /\ MatchLit(t, e + 1, <<"*", "*">>, FALSE)

\* the lookahead (?=\n[A-Z_]+:|\Z) of _extract_style_field at index e
LookLabel(t, e) ==
    \/ e = Len(t) + 1
    \/ /\ e <= Len(t)
       /\ t[e] = "\n"
       /\ LET c == FirstNotIn(t, e + 1, Letters)
          IN  c > e + 1 /\ c <= Len(t) /\ t[c] = ":"

\* the lookahead of the regular expression named kind at index e
Look(kind, t, e) ==
    CASE kind = "field" -> LookField(t, e)
      [] kind = "section" -> LookSection(t, e)
      [] kind = "user" -> LookUser(t, e)
      [] kind = "assistant" -> LookAssistant(t, e)
      [] kind = "bold" -> LookBold(t, e)
      [] kind = "label" -> LookLabel(t, e)

\* the first index from e on where the lookahead holds, 0 when there is none
FirstLook(kind, t, e) ==
    LET es == {x \in e..(Len(t) + 1) : Look(kind, t, x)}
    IN  IF es = {} THEN 0 ELSE Min(es)

\* the greedy \s* has taken t[w..k-1]: the lazy group of at least minlen
\* atoms is tried from k, and on failure \s* gives one atom back
RECURSIVE LazyFrom(_, _, _, _, _)
LazyFrom(kind, t, w, k, minlen) ==
    IF k < w THEN <<>>
    ELSE LET e == FirstLook(kind, t, k + minlen)
         IN  IF e # 0 THEN <<k, e>> ELSE LazyFrom(kind, t, w, k - 1, minlen)

\* "\s*(.{minlen,}?)(?=lookahead)" with re.DOTALL, tried at index w.
\* <<k, e>>: the group is t[k..e-1]; <<>>: no match.
LazyGroup(kind, t, w, minlen) == LazyFrom(kind, t, w, WsEnd(t, w), minlen)

-----------------------------------------------------------------------------
(* The field extractor: figure_research.py, _extract_field                 *)

\* re.search(marker + r"\s*(.{minlen,}?)(?=lookahead)", text,
\* re.DOTALL | re.IGNORECASE): the group <<k, e>> of the leftmost match,
\* <<>> when there is none
marker_search(kind, text, marker, minlen) ==
    LET leftmost(starts) ==
            IF starts = {} THEN <<>>
            ELSE LazyGroup(kind, text, Min(starts) + Len(marker), minlen)
    IN  leftmost({i \in 1..Len(text) :
                     /\ MatchLit(text, i, marker, TRUE)
                     /\ LazyGroup(kind, text, i + Len(marker), minlen) # <<>>})

\* re.search(rf"{re.escape(marker)}\s*(.+?)(?=\n\s*[\*\-]|\Z)", text,
\* re.DOTALL | re.IGNORECASE)
field_search(text, marker) == marker_search("field", text, marker, 1)

\* re.sub(r"\n\s*[\*\-].*", "", value): every "\n", optional whitespace and a
\* "*" or "-" is removed with the rest of its line ("." stops at "\n")
RECURSIVE field_tail_removed(_)
field_tail_removed(value) ==
    LET hits == {e \in 1..Len(value) : value[e] = "\n" /\ LookField(value, e)}
    IN  IF hits = {} THEN value
        ELSE LET e == Min(hits)
                 q == WsEnd(value, e + 1)
                 eol == FirstIn(value, q, {"\n"})
             IN  SubSeq(value, 1, e - 1)
                   \o field_tail_removed(SubSeq(value, eol, Len(value)))

RECURSIVE extract_field(_, _)
extract_field(text, field_markers) ==
    IF field_markers = <<>> THEN None
    ELSE LET found(m) ==
                 IF m # <<>>
                 THEN Some(strip(field_tail_removed(
                              strip(SubSeq(text, m[1], m[2] - 1)))))
                 ELSE extract_field(text, Tail(field_markers))
         IN  found(field_search(text, Head(field_markers)))

-----------------------------------------------------------------------------
(* The section extractor and the analysis parser: figure_research.py,      *)
(* _extract_section and _parse_figure_analysis                             *)

\* a sentinel that is no string
SectionNotFoundNone == None

SectionNotFound == <<"Section not found">>

\* re.search(rf"{re.escape(marker)}\s*(.+?)(?=\n\*\*[A-Z][A-Z ]*:\*\*|\Z)",
\* text, re.DOTALL | re.IGNORECASE) for each marker in turn
RECURSIVE extract_section(_, _)
extract_section(text, section_markers) ==
    IF section_markers = <<>> THEN SectionNotFound
    ELSE LET found(m) ==
                 IF m # <<>> THEN strip(SubSeq(text, m[1], m[2] - 1))
                 ELSE extract_section(text, Tail(section_markers))
         IN  found(marker_search("section", text, Head(section_markers), 1))

\* the markers ["**X:**", "X:"] of a label X
BoldAndPlain(label) == << <<"*", "*", label, ":", "*", "*">>, <<label, ":">> >>

parse_figure_analysis(figure_name, resp) ==
    [figure_name |-> figure_name,
     tone_analysis |-> extract_section(resp, BoldAndPlain("TONE ANALYSIS")),
     voice_perspective |->
         extract_section(resp, BoldAndPlain("VOICE AND PERSPECTIVE")),
     formality_level |-> extract_section(resp, BoldAndPlain("FORMALITY LEVEL")),
     length_structure |->
         extract_section(resp, BoldAndPlain("LENGTH AND STRUCTURE")),
     unique_characteristics |->
         extract_section(resp, BoldAndPlain("UNIQUE CHARACTERISTICS")),
     topics_themes |-> extract_section(resp, BoldAndPlain("TOPICS AND THEMES")),
     historical_context |->
         extract_section(resp, BoldAndPlain("HISTORICAL CONTEXT"))]

-----------------------------------------------------------------------------
(* The verification parser: figure_research.py, _parse_figure_verification *)

parse_figure_verification(figure_name, resp) ==
    [figure_name |-> figure_name,
     status |-> upper(strip(OrDefault(
                    extract_field(resp, BoldAndPlain("Status")), <<"UNVERIFIED">>))),
     reason |-> OrDefault(
                    extract_field(resp, BoldAndPlain("Reason")), <<"Not specified">>),
     available_sources |-> OrDefault(
                    extract_field(resp, BoldAndPlain("Available Sources")),
                    <<"Unknown">>),
     concerns |-> OrDefault(
                    extract_field(resp, BoldAndPlain("Concerns")),
                    <<"None specified">>),
     time_period |-> extract_field(resp, BoldAndPlain("Time Period")),
     primary_medium |-> extract_field(resp, BoldAndPlain("Primary Medium")),
     writing_volume |-> extract_field(resp, BoldAndPlain("Writing Volume"))]

-----------------------------------------------------------------------------
(* The figure-list parsers: figure_research.py, _parse_figure_discovery,   *)
(* _parse_figure_name_search, _parse_figure_refinement                     *)

\* "\*\*Figure \d:" at index i: a heading pattern that takes one digit only
FigureHeadPrefixOneDigit(t, i) ==
    IF /\ MatchLit(t, i, <<"*", "*", "Figure", " ">>, FALSE)
       /\ i + 5 <= Len(t)
       /\ t[i + 4] \in Digits
       /\ t[i + 5] = ":"
    THEN i + 6 ELSE 0

\* "\*\*Figure \d+:" at index i: the index after the colon, 0 when no match
FigureHeadPrefix(t, i) ==
    IF MatchLit(t, i, <<"*", "*", "Figure", " ">>, FALSE)
    THEN LET d == i + 4
             dend == FirstNotIn(t, d, Digits)
         IN  IF dend > d /\ dend <= Len(t) /\ t[dend] = ":"
             THEN dend + 1 ELSE 0
    ELSE 0

\* "\s*\(([^)]+)\)\*\*" at index e: <<q, r>> with "(" at q and the first ")"
\* at r, or <<>>
FigureSuffix(t, e) ==
    LET q == WsEnd(t, e)
    IN  IF q <= Len(t) /\ t[q] = "("
        THEN LET r == FirstIn(t, q + 1, {")"})
             IN  IF r <= Len(t) /\ r > q + 1 /\ MatchLit(t, r + 1, <<"*", "*">>, FALSE)
                 THEN <<q, r>> ELSE <<>>
        ELSE <<>>

\* figure_pattern = r"\*\*Figure \d+: (.+?)\s*\(([^)]+)\)\*\*" at index i:
\* <<name, period, index after the match>>, or <<>>.  "." stops at "\n".
figure_pattern(t, i) ==
    LET p == FigureHeadPrefix(t, i)
    IN  IF p = 0 \/ ~MatchLit(t, p, <<" ">>, FALSE) THEN <<>>
        ELSE LET ns == p + 1
                 eol == FirstIn(t, ns, {"\n"})
                 es == {e \in (ns + 1)..eol : FigureSuffix(t, e) # <<>>}
             IN  IF es = {} THEN <<>>
                 ELSE LET s == FigureSuffix(t, Min(es))
                      IN  <<SubSeq(t, ns, Min(es) - 1),
                            SubSeq(t, s[1] + 1, s[2] - 1),
                            s[2] + 3>>

\* re.findall(figure_pattern, resp), from index pos on
RECURSIVE figure_matches(_, _)
figure_matches(resp, pos) ==
    LET starts == {i \in pos..Len(resp) :
                      FigureHeadPrefix(resp, i) # 0 /\ figure_pattern(resp, i) # <<>>}
    IN  IF starts = {} THEN <<>>
        ELSE LET matched(m) == <<<<m[1], m[2]>>>> \o figure_matches(resp, m[3])
             IN  matched(figure_pattern(resp, Min(starts)))

\* r"\*\*Figure \d+:[^*]+\*\*" at index i: the index after the match, or 0
figure_split_pattern(t, i) ==
    LET p == FigureHeadPrefix(t, i)
    IN  IF p = 0 THEN 0
        ELSE LET j == FirstIn(t, p, {"*"})
             IN  IF j <= Len(t) /\ j > p /\ MatchLit(t, j, <<"*", "*">>, FALSE)
                 THEN j + 2 ELSE 0

\* r"\*\*EXAMPLE \d+:\*\*" at index i: the index after the match, or 0
example_pattern(t, i) ==
    IF MatchLit(t, i, <<"*", "*", "EXAMPLE", " ">>, FALSE)
    THEN LET d == i + 4
             dend == FirstNotIn(t, d, Digits)
         IN  IF dend > d /\ MatchLit(t, dend, <<":", "*", "*">>, FALSE)
             THEN dend + 3 ELSE 0
    ELSE 0

SplitPatternEnd(kind, t, i) ==
    IF kind = "figure" THEN figure_split_pattern(t, i) ELSE example_pattern(t, i)

\* re.split(pattern, t) from index pos on: the pieces between the matches
RECURSIVE re_split(_, _, _)
re_split(kind, t, pos) ==
    LET starts == {i \in pos..Len(t) : SplitPatternEnd(kind, t, i) # 0}
    IN  IF starts = {} THEN <<SubSeq(t, pos, Len(t))>>
        ELSE <<SubSeq(t, pos, Min(starts) - 1)>>
               \o re_split(kind, t, SplitPatternEnd(kind, t, Min(starts)))

\* the split with the piece before the first heading kept
figure_sections_unskipped(resp) == re_split("figure", resp, 1)

\* re.split(r"\*\*Figure \d+:[^*]+\*\*", resp)[1:]
figure_sections(resp) == Tail(re_split("figure", resp, 1))

NotSpecified == <<"Not specified">>

HistoricalFigure(name, time_period, writing_style, notable_works, match_criteria) ==
    [name |-> name, time_period |-> time_period, writing_style |-> writing_style,
     notable_works |-> notable_works, match_criteria |-> match_criteria]

\* In each parser the loop "for i, (name_match, period_match) in
\* enumerate(figure_matches): if i < len(figure_sections)" visits the first
\* min(len(figure_matches), len(figure_sections)) matches.

parse_figure_discovery(resp) ==
    LET figures_of(ms, ss) ==
            [i \in 1..Min({Len(ms), Len(ss)}) |->
                  HistoricalFigure(
                    strip(ms[i][1]),
                    strip(ms[i][2]),
                    OrDefault(extract_field(ss[i], <<
                        <<"Writing Style", ":">>, <<"-", " ", "Writing Style", ":">> >>),
                        NotSpecified),
                    OrDefault(extract_field(ss[i], <<
                        <<"Notable Works", ":">>, <<"-", " ", "Notable Works", ":">> >>),
                        NotSpecified),
                    OrDefault(extract_field(ss[i], <<
                        <<"Match Criteria", ":">>, <<"-", " ", "Match Criteria", ":">> >>),
                        NotSpecified))]
    IN  figures_of(figure_matches(resp, 1), figure_sections(resp))

\* match_criteria = match_type or "Name match"; if also_known_as and
\* also_known_as != "None": match_criteria += f" (Also: {also_known_as})"
name_search_criteria(match_type, also_known_as) ==
    LET base == OrDefault(match_type, <<"Name match">>)
        aka == OrDefault(also_known_as, <<>>)
    IN  IF aka # <<>> /\ aka # <<"None">>
        THEN base \o <<" ", "(", "Also", ":", " ">> \o aka \o <<")">>
        ELSE base

parse_figure_name_search(resp) ==
    LET figures_of(ms, ss) ==
            [i \in 1..Min({Len(ms), Len(ss)}) |->
                  HistoricalFigure(
                    strip(ms[i][1]),
                    strip(ms[i][2]),
                    OrDefault(extract_field(ss[i], <<
                        <<"Writing Style", ":">>, <<"-", " ", "Writing Style", ":">> >>),
                        NotSpecified),
                    OrDefault(extract_field(ss[i], <<
                        <<"Notable Works", ":">>, <<"-", " ", "Notable Works", ":">> >>),
                        NotSpecified),
                    name_search_criteria(
                        extract_field(ss[i], <<
                          <<"Match Type", ":">>, <<"-", " ", "Match Type", ":">> >>),
                        extract_field(ss[i], <<
                          <<"Also Known As", ":">>, <<"-", " ", "Also Known As", ":">> >>)))]
    IN  figures_of(figure_matches(resp, 1), figure_sections(resp))

parse_figure_refinement(resp) ==
    LET figures_of(ms, ss) ==
            [i \in 1..Min({Len(ms), Len(ss)}) |->
                  HistoricalFigure(
                    strip(ms[i][1]),
                    strip(ms[i][2]),
                    OrDefault(extract_field(ss[i], <<
                        <<"-", " ", "Style Preview", ":">>, <<"Style Preview", ":">> >>),
                        <<"Style not specified">>),
                    OrDefault(extract_field(ss[i], <<
                        <<"-", " ", "Available Content", ":">>, <<"Available Content", ":">> >>),
                        <<"Content not specified">>),
                    OrDefault(extract_field(ss[i], <<
                        <<"-", " ", "Better Match Because", ":">>,
                        <<"Better Match Because", ":">> >>),
                        <<"Refinement reason not specified">>))]
    IN  figures_of(figure_matches(resp, 1), figure_sections(resp))

-----------------------------------------------------------------------------
(* What the text-generation step may answer to a figure-list prompt         *)
(* (prompts/historical_templates.py): headings "**Figure N: Name (Period)**"*)
(* each followed by "- Label: value" lines, well-formed or not.            *)

Tag(k) == IF k = 1 THEN "I" ELSE IF k = 2 THEN "II" ELSE IF k = 3 THEN "III" ELSE "IV"

Name(k) ==
    IF k = 1 THEN <<"Mark", " ", "Twain">>
    ELSE IF k = 2 THEN <<"Plato">>
    ELSE <<"Maya", " ", "Angelou">>

Period(k) ==
    IF k = 1 THEN <<"1835", "-", "1910">>
    ELSE IF k = 2 THEN <<"c", " ", "400">>
    ELSE <<"1928", "-", "2014">>

\* the ordinals are not sequential
Ordinal(k) == IF k = 1 THEN <<"7">> ELSE IF k = 2 THEN <<"1", "2">> ELSE <<"3">>

\* a name with a "*" in it
StarName(k) == <<Head(Name(k)), "*">> \o Tail(Name(k))

HeadKinds == {"ok", "noperiod", "star"}

Heading(k, kind) ==
    <<"*", "*", "Figure", " ">> \o Ordinal(k) \o <<":", " ">>
      \o (IF kind = "ok" THEN Name(k) \o <<" ", "(">> \o Period(k) \o <<")">>
          ELSE IF kind = "noperiod" THEN Name(k)
          ELSE StarName(k) \o <<" ", "(">> \o Period(k) \o <<")">>)
      \o <<"*", "*">>

Dialects == {"discovery", "name_search", "refinement"}

FieldNames == <<"aka", "crit", "style", "works">>

\* the label of a field in a dialect's prompt template
Label(dialect, f) ==
    IF f = "aka" THEN "Also Known As"
    ELSE IF dialect = "refinement"
         THEN (IF f = "crit" THEN "Better Match Because"
               ELSE IF f = "style" THEN "Style Preview" ELSE "Available Content")
         ELSE (IF f = "crit"
               THEN (IF dialect = "discovery" THEN "Match Criteria" ELSE "Match Type")
               ELSE IF f = "style" THEN "Writing Style" ELSE "Notable Works")

\* the value the k-th block gives a field: it names its block
FieldValue(f, k) ==
    IF f = "akaNone" THEN <<"None">>
    ELSE <<(IF f = "aka" THEN "alias" ELSE IF f = "crit" THEN "humorist"
            ELSE IF f = "style" THEN "terse" ELSE "essays"), " ", Tag(k)>>

\* which fields a block's body gives ("akaNone": "- Also Known As: None")
FieldSets ==
    { {"aka", "crit", "style", "works"}, {"akaNone", "crit", "works"},
      {"aka", "style"}, {} }

Indent(lay) == IF lay.indent THEN <<" ", " ">> ELSE <<>>

FieldLine(dialect, f, k, fields, lay) ==
    IF f \in fields
    THEN Indent(lay) \o <<"-", " ", Label(dialect, f), ":", " ">>
           \o FieldValue(f, k) \o <<"\n">>
    ELSE IF f = "aka" /\ "akaNone" \in fields
    THEN Indent(lay) \o <<"-", " ", Label(dialect, f), ":", " ">>
           \o FieldValue("akaNone", k) \o <<"\n">>
    ELSE <<>>

Body(dialect, k, fields, lay) ==
    FieldLine(dialect, FieldNames[1], k, fields, lay)
      \o FieldLine(dialect, FieldNames[2], k, fields, lay)
      \o FieldLine(dialect, FieldNames[3], k, fields, lay)
      \o FieldLine(dialect, FieldNames[4], k, fields, lay)

BlockKinds == [head : HeadKinds, fields : FieldSets]

BlockSeqs == UNION {[1..n -> BlockKinds] : n \in 0..MaxFigures}

Layouts == [indent : BOOLEAN, preamble : BOOLEAN]

RECURSIVE RenderBlocks(_, _, _, _)
RenderBlocks(dialect, bs, lay, k) ==
    IF k > Len(bs) THEN <<>>
    ELSE Indent(lay) \o Heading(k, bs[k].head) \o <<"\n">>
           \o Body(dialect, k, bs[k].fields, lay) \o <<"\n">>
           \o RenderBlocks(dialect, bs, lay, k + 1)

Render(dialect, bs, lay) ==
    (IF lay.preamble THEN <<"Here", " ", "are", " ", "some", ":", "\n">> ELSE <<>>)
      \o RenderBlocks(dialect, bs, lay, 1)

-----------------------------------------------------------------------------
(* The figure-list operations: figure_research.py, discover_figures,       *)
(* search_by_name, refine_search                                           *)

Counts == {0, 5, 21}

\* "if count < 1 or count > 20: raise ValueError"
CountValid(count) == ~(count < 1 \/ count > 20)

\* adapter.generate_text returned: the operation returns what its parser
\* makes of the text
Generated(dialect, figs) ==
    /\ response' = Some(Render(dialect, blocks, layout))
    /\ outcome' = "returned"
    /\ figures' = figs
    /\ UNCHANGED console

\* adapter.generate_text raised: "except Exception as e: ... return []"
ApiError ==
    /\ outcome' = "api_error"
    /\ figures' = <<>>
    /\ console' = console \cup {"Error"}
    /\ UNCHANGED response

discover_figures ==
    /\ op = "idle"
    /\ op' = "discover_figures"
    /\ UNCHANGED <<inputVars, retval, examples, verification, analysis, flowVars>>
    /\ \E count \in Counts :
         IF ~CountValid(count)
         THEN outcome' = "ValueError" /\ UNCHANGED <<response, figures, console>>
         ELSE \/ Generated("discovery",
                   parse_figure_discovery(Render("discovery", blocks, layout)))
              \/ ApiError

search_by_name ==
    /\ op = "idle"
    /\ op' = "search_by_name"
    /\ UNCHANGED <<inputVars, retval, examples, verification, analysis, flowVars>>
    /\ \E count \in Counts :
         IF ~CountValid(count)
         THEN outcome' = "ValueError" /\ UNCHANGED <<response, figures, console>>
         ELSE \/ Generated("name_search",
                   parse_figure_name_search(Render("name_search", blocks, layout)))
              \/ ApiError

refine_search ==
    /\ op = "idle"
    /\ op' = "refine_search"
    /\ UNCHANGED <<inputVars, retval, examples, verification, analysis, flowVars>>
    /\ \/ Generated("refinement",
            parse_figure_refinement(Render("refinement", blocks, layout)))
       \/ ApiError

InitFigures ==
    /\ Idle
    /\ blocks \in BlockSeqs
    /\ layout \in Layouts

NextFigures == discover_figures \/ search_by_name \/ refine_search

SpecFigures == InitFigures /\ [][NextFigures]_vars

-----------------------------------------------------------------------------
(* Properties of the figure-list parsers                                   *)

WellFormed(bs) == \A k \in 1..Len(bs) : bs[k].head = "ok"

OtherFields == {"writing_style", "notable_works", "match_criteria"}

Occurs(a, t) == \E x \in 1..Len(t) : t[x] = a

Contains(t, lit) == \E i \in 1..Len(t) : MatchLit(t, i, lit, TRUE)

\* the headings of bs that carry "(Period)", which the capturing pattern needs
HeadingsFound(bs) ==
    Cardinality({k \in 1..Len(bs) : bs[k].head \in {"ok", "star"}})

\* the headings of bs with no "*" inside, which the splitting pattern needs
HeadingsSplit(bs) ==
    Cardinality({k \in 1..Len(bs) : bs[k].head \in {"ok", "noperiod"}})

\* C1: when every heading of the response is a well-formed
\* "**Figure N: Name (Period)**" followed by its own body, each of the three
\* figure-list parsers returns one record per heading, in the order of the
\* headings, with the k-th record's name and time_period those of the k-th
\* heading and its other fields non-empty; the ordinals are not sequential.
C1_WellFormedHeadingsAllParsed ==
    (outcome = "returned" /\ WellFormed(blocks)) =>
        /\ Len(figures) = Len(blocks)
        /\ \A k \in 1..Len(blocks) :
              /\ figures[k].name = Name(k)
              /\ figures[k].time_period = Period(k)
              /\ \A f \in OtherFields : figures[k][f] # <<>>

C1_Witness ==
    /\ op = "refine_search"
    /\ outcome = "returned"
    /\ layout.indent
    /\ Len(blocks) = MaxFigures
    /\ WellFormed(blocks)
    /\ blocks[1].fields = {}
    /\ Len(figures) = MaxFigures
    /\ figures[MaxFigures].name = Name(MaxFigures)

\* C2: no returned figure carries a writing_style, notable_works or
\* match_criteria that was extracted from the body of a heading other than the
\* one its name was captured from (a field value names the block it is in).
C2_FieldsFromOwnBody ==
    outcome = "returned" =>
        \A i \in 1..Len(figures), j \in 1..Len(blocks), f \in OtherFields :
            Occurs(Tag(j), figures[i][f])
                => figures[i].name \in {Name(j), StarName(j)}

\* C3: a figure-list parser returns as many records as the smaller of the
\* number of headings the capturing pattern finds and the number of sections
\* the split produces, and none when no heading is found (the empty string,
\* unstructured text); an operation whose generation step failed returns none.
C3_CountIsSmallerOfFoundAndSplit ==
    /\ outcome = "returned" =>
          /\ Len(figures) = Min({HeadingsFound(blocks), HeadingsSplit(blocks)})
          /\ HeadingsFound(blocks) = 0 => figures = <<>>
    /\ outcome = "api_error" => figures = <<>>

C3_Witness ==
    /\ outcome = "returned"
    /\ Len(blocks) = MaxFigures
    /\ HeadingsFound(blocks) = MaxFigures
    /\ HeadingsSplit(blocks) = 1
    /\ Len(figures) = 1

\* C4 as stated: in the discovery and name_search dialects a field whose
\* label is not in the section paired with the figure is "Not specified".
C4_MissingFieldNotSpecified ==
    (outcome = "returned" /\ op \in {"discover_figures", "search_by_name"}) =>
        \A i \in 1..Len(figures) :
            LET s == figure_sections(response[1])[i]
            IN  /\ ~Contains(s, <<"Writing Style", ":">>)
                     => figures[i].writing_style = NotSpecified
                /\ ~Contains(s, <<"Notable Works", ":">>)
                     => figures[i].notable_works = NotSpecified
                /\ (~Contains(s, <<"Match Criteria", ":">>)
                      /\ ~Contains(s, <<"Match Type", ":">>))
                     => figures[i].match_criteria = NotSpecified

\* C4: no returned figure has an empty field.  A writing_style or
\* notable_works whose label is not in the section paired with the figure is
\* "Not specified", and so is the match_criteria of the discovery dialect.  In
\* the name_search dialect match_criteria is read from "Match Type:", and
\* without that label it is "Name match", alone when there is no
\* "Also Known As:" label either and followed by " (Also: ...)" otherwise.
C4_MissingFieldDefaults ==
    (outcome = "returned" /\ op \in {"discover_figures", "search_by_name"}) =>
        \A i \in 1..Len(figures) :
            LET s == figure_sections(response[1])[i]
                mc == figures[i].match_criteria
            IN  /\ \A f \in OtherFields : figures[i][f] # <<>>
                /\ ~Contains(s, <<"Writing Style", ":">>)
                     => figures[i].writing_style = NotSpecified
                /\ ~Contains(s, <<"Notable Works", ":">>)
                     => figures[i].notable_works = NotSpecified
                /\ (op = "discover_figures" /\ ~Contains(s, <<"Match Criteria", ":">>))
                     => mc = NotSpecified
                /\ (op = "search_by_name" /\ ~Contains(s, <<"Match Type", ":">>))
                     => /\ Head(mc) = "Name match"
                        /\ ~Contains(s, <<"Also Known As", ":">>)
                             => mc = <<"Name match">>
                        /\ Len(mc) > 1
                             => SubSeq(mc, 2, 5) = <<" ", "(", "Also", ":">>

C4_Witness ==
    /\ op = "search_by_name"
    /\ outcome = "returned"
    /\ Len(figures) = MaxFigures
    /\ figures[1].writing_style = NotSpecified
    /\ figures[1].match_criteria = <<"Name match">>
    /\ Head(figures[MaxFigures].match_criteria) = "Name match"
    /\ Len(figures[MaxFigures].match_criteria) > 1
    /\ figures[MaxFigures].notable_works = NotSpecified

-----------------------------------------------------------------------------
(* The training-example parser: dataset_generator.py,                      *)
(* _parse_generated_examples and _fallback_parse_examples                  *)

SystemMessage ==
    [role |-> "system", content |-> <<"You are a helpful writing assistant.">>]

\* TrainingExample(messages=[system, user, assistant]); Python's messages[1]
\* and messages[2] are messages[2] and messages[3] here
TrainingExample(user_prompt, assistant_response) ==
    [messages |-> << SystemMessage,
                     [role |-> "user", content |-> user_prompt],
                     [role |-> "assistant", content |-> assistant_response] >>]

\* re.split(r"\*\*EXAMPLE \d+:\*\*", resp)[1:]
example_sections(resp) == Tail(re_split("example", resp, 1))

\* what the primary strategy makes of one section: <<example>> or <<>>
section_example(section) ==
    LET group(match) == strip(SubSeq(section, match[1], match[2] - 1))
        example(user_prompt, assistant_response) ==
            IF user_prompt # <<>> /\ assistant_response # <<>>
            THEN <<TrainingExample(user_prompt, assistant_response)>>
            ELSE <<>>
        matched(user_match, assistant_match) ==
            IF user_match # <<>> /\ assistant_match # <<>>
            THEN example(group(user_match), group(assistant_match))
            ELSE <<>>
    IN  matched(marker_search("user", section, <<"User prompt", ":">>, 0),
                marker_search("assistant", section,
                              <<"Assistant response", ":">>, 0))

RECURSIVE section_examples(_)
section_examples(sections) ==
    IF sections = <<>> THEN <<>>
    ELSE section_example(Head(sections)) \o section_examples(Tail(sections))

\* the primary strategy: "for section in example_sections: ..."
primary_examples(resp) == section_examples(example_sections(resp))

\* str.split("\n") from index pos on
RECURSIVE split_lines(_, _)
split_lines(t, pos) ==
    LET e == FirstIn(t, pos, {"\n"})
    IN  IF e > Len(t) THEN <<SubSeq(t, pos, Len(t))>>
        ELSE <<SubSeq(t, pos, e - 1)>> \o split_lines(t, e + 1)

\* "\n".join(lines)
RECURSIVE join_lines(_)
join_lines(lines) ==
    IF Len(lines) = 0 THEN <<>>
    ELSE IF Len(lines) = 1 THEN lines[1]
    ELSE lines[1] \o <<"\n">> \o join_lines(Tail(lines))

startswith(line, prefix) == MatchLit(line, 1, prefix, FALSE)

\* line.split(":", 1)[1].strip()
after_colon(line) ==
    strip(SubSeq(line, FirstIn(line, 1, {":"}) + 1, Len(line)))

\* a flush that looks at neither the prompt nor the response text
flush_example_unchecked(st) ==
    IF st.current_prompt # None /\ st.current_response_lines # <<>>
    THEN Append(st.examples,
                TrainingExample(st.current_prompt[1],
                                join_lines(st.current_response_lines)))
    ELSE st.examples

\* "if current_prompt and current_response_lines: response_text = ...;
\* if response_text.strip(): examples.append(...)"
flush_example(st) ==
    IF /\ st.current_prompt # None
       /\ st.current_prompt[1] # <<>>
       /\ st.current_response_lines # <<>>
       /\ strip(join_lines(st.current_response_lines)) # <<>>
    THEN Append(st.examples,
                TrainingExample(st.current_prompt[1],
                                join_lines(st.current_response_lines)))
    ELSE st.examples

\* one turn of "for line in lines:"
fallback_step(st, raw) ==
    LET line == strip(raw)
    IN  IF startswith(line, <<"User prompt", ":">>) \/ startswith(line, <<"Prompt", ":">>)
        THEN [examples |-> flush_example(st),
              current_prompt |-> Some(after_colon(line)),
              current_response_lines |-> <<>>]
        ELSE IF \/ startswith(line, <<"Assistant response", ":">>)
                \/ startswith(line, <<"Response", ":">>)
        THEN [st EXCEPT !.current_response_lines = <<after_colon(line)>>]
        ELSE IF /\ st.current_prompt # None
                /\ line # <<>>
                /\ ~startswith(line, <<"User prompt", ":">>)
                /\ ~startswith(line, <<"EXAMPLE">>)
        THEN [st EXCEPT !.current_response_lines = Append(@, line)]
        ELSE st

RECURSIVE fallback_loop(_, _)
fallback_loop(st, lines) ==
    IF lines = <<>> THEN st
    ELSE fallback_loop(fallback_step(st, Head(lines)), Tail(lines))

\* a scan that forgets the example pending at the end of the input
fallback_parse_examples_unflushed(resp) ==
    fallback_loop(
        [examples |-> <<>>, current_prompt |-> None, current_response_lines |-> <<>>],
        split_lines(resp, 1)).examples

fallback_parse_examples(resp) ==
    flush_example(fallback_loop(
        [examples |-> <<>>, current_prompt |-> None, current_response_lines |-> <<>>],
        split_lines(resp, 1)))

\* a fallback that runs whatever the primary strategy found
NeedsFallbackAlways(primary) == TRUE

\* "if not examples:"
NeedsFallback(primary) == primary = <<>>

\* the try block of _parse_generated_examples on what generate_text
\* returned: the examples assigned so far, the exception raised ("no": none)
\* and the notices printed.  re.split(pattern, None) raises TypeError.
parse_try_block(content) ==
    IF content = None
    THEN [examples |-> <<>>, raised |-> "TypeError", notices |-> {}]
    ELSE LET parsed(primary) ==
                 IF NeedsFallback(primary)
                 THEN [examples |-> fallback_parse_examples(content[1]),
                       raised |-> "no",
                       notices |-> {"Trying fallback parsing method"}]
                 ELSE [examples |-> primary, raised |-> "no", notices |-> {}]
         IN  parsed(primary_examples(content[1]))

\* a handler that catches ValueError only
CaughtValueErrorOnly(exc) == exc = "ValueError"

\* "except Exception as e:" catches every exception the block can raise
Caught(exc) == exc \in {"TypeError", "ValueError", "AttributeError", "IndexError"}

\* _parse_generated_examples(content): how the call ends, what it returns
\* and what it prints
parse_generated_examples_call(content) ==
    LET ended(b) ==
            IF b.raised = "no"
            THEN [outcome |-> "returned", examples |-> b.examples,
                  notices |-> b.notices]
            ELSE IF Caught(b.raised)
            THEN [outcome |-> "returned", examples |-> b.examples,
                  notices |-> b.notices \cup {"Error parsing examples"}]
            ELSE [outcome |-> b.raised, examples |-> <<>>, notices |-> b.notices]
    IN  ended(parse_try_block(content))

-----------------------------------------------------------------------------
(* What the text-generation step may answer to an example prompt: blocks   *)
(* "**EXAMPLE n:**", "User prompt: ...", "Assistant response: ...", laid   *)
(* out as the prompt template asks or as the strings of the unit tests.    *)

ExamplePrompt(k) == <<"Write", " ", Tag(k)>>

ExampleResponse(k) == <<"Story", " ", Tag(k)>>

ExampleMore(k) == <<"More", " ", Tag(k)>>

ExampleHeads == {"bold", "none"}

ExampleLabels == {"long", "short", "lower"}

PromptLabel(labels) ==
    IF labels = "long" THEN "User prompt"
    ELSE IF labels = "short" THEN "Prompt" ELSE "user prompt"

ResponseLabel(labels) ==
    IF labels = "long" THEN "Assistant response"
    ELSE IF labels = "short" THEN "Response" ELSE "assistant response"

ExampleBlockKinds == [head : ExampleHeads, labels : ExampleLabels, more : BOOLEAN]

ExampleBlockSeqs == UNION {[1..n -> ExampleBlockKinds] : n \in 0..MaxExamples}

RECURSIVE RenderExampleBlocks(_, _, _)
RenderExampleBlocks(bs, lay, k) ==
    IF k > Len(bs) THEN <<>>
    ELSE (IF bs[k].head = "bold"
          THEN Indent(lay) \o <<"*", "*", "EXAMPLE", " ">> \o Ordinal(k)
                 \o <<":", "*", "*", "\n">>
          ELSE <<>>)
           \o Indent(lay) \o <<PromptLabel(bs[k].labels), ":", " ">>
           \o ExamplePrompt(k) \o <<"\n">>
           \o Indent(lay) \o <<ResponseLabel(bs[k].labels), ":", " ">>
           \o ExampleResponse(k) \o <<"\n">>
           \o (IF bs[k].more THEN Indent(lay) \o ExampleMore(k) \o <<"\n">> ELSE <<>>)
           \o (IF k < Len(bs) THEN Indent(lay) \o <<"\n">> ELSE <<>>)
           \o RenderExampleBlocks(bs, lay, k + 1)

\* the indented layout is that of the triple-quoted strings of the unit
\* tests: a leading newline, every line indented, the indentation last
RenderExamples(bs, lay) ==
    (IF lay.preamble THEN <<"Here", " ", "are", " ", "some", ":", "\n">> ELSE <<>>)
      \o (IF lay.indent THEN <<"\n">> ELSE <<>>)
      \o RenderExampleBlocks(bs, lay, 1)
      \o Indent(lay)

-----------------------------------------------------------------------------
(* The example operations: dataset_generator.py, _parse_generated_examples *)
(* called on a text, and _generate_example_batch                           *)

Parsed(content) ==
    LET returned(r) ==
            /\ response' = content
            /\ outcome' = r.outcome
            /\ examples' = r.examples
            /\ console' = console \cup r.notices
    IN  returned(parse_generated_examples_call(content))

parse_generated_examples ==
    /\ op = "idle"
    /\ op' = "parse_generated_examples"
    /\ UNCHANGED <<inputVars, retval, figures, verification, analysis, flowVars>>
    /\ \E content \in {None, Some(RenderExamples(blocks, layout))} :
          Parsed(content)

\* "try: ... response = self.adapter.generate_text(...); return
\* self._parse_generated_examples(response) except Exception as e: return []"
generate_example_batch ==
    /\ op = "idle"
    /\ op' = "generate_example_batch"
    /\ UNCHANGED <<inputVars, retval, figures, verification, analysis, flowVars>>
    /\ \/ \E content \in {None, Some(RenderExamples(blocks, layout))} :
             Parsed(content)
       \/ /\ outcome' = "api_error"
          /\ examples' = <<>>
          /\ console' = console \cup {"Error generating example batch"}
          /\ UNCHANGED response

InitExamples ==
    /\ Idle
    /\ blocks \in ExampleBlockSeqs
    /\ layout \in Layouts

NextExamples == parse_generated_examples \/ generate_example_batch

SpecExamples == InitExamples /\ [][NextExamples]_vars

-----------------------------------------------------------------------------
(* Properties of the training-example parser                               *)

ExampleWellFormed(bs) ==
    \A k \in 1..Len(bs) :
        bs[k].head = "bold" /\ bs[k].labels = "long" /\ ~bs[k].more

ExampleOps == {"parse_generated_examples", "generate_example_batch"}

\* C5: a response of N "**EXAMPLE n:**" blocks, each with a "User prompt:"
\* line and an "Assistant response:" line, indented or not, is parsed into
\* exactly N examples in block order, the k-th with the k-th block's prompt
\* as its user content and the k-th block's response, and nothing else, as
\* its assistant content.
C5_EachBlockOneExample ==
    (op \in ExampleOps /\ outcome = "returned" /\ response # None
       /\ ExampleWellFormed(blocks)) =>
        /\ Len(examples) = Len(blocks)
        /\ \A k \in 1..Len(blocks) :
              /\ examples[k].messages[2].content = ExamplePrompt(k)
              /\ examples[k].messages[3].content = ExampleResponse(k)

\* C6: the fallback strategy runs exactly when the primary strategy yields
\* no example.  When the primary strategy yields one or more the result is
\* the primary result and no fallback is announced; when it yields none the
\* fallback is announced and the result is what the line-oriented fallback
\* makes of the whole response.  The primary strategy yields an example from
\* an unindented response that starts with a well-formed block, and none
\* from an indented response or a response without "**EXAMPLE n:**".
C6_FallbackIffPrimaryEmpty ==
    (op \in ExampleOps /\ outcome = "returned" /\ response # None) =>
        LET primary == primary_examples(response[1])
            announced == "Trying fallback parsing method" \in console
        IN  /\ primary # <<>> => (examples = primary /\ ~announced)
            /\ primary = <<>> =>
                  (examples = fallback_parse_examples(response[1]) /\ announced)
            /\ (~layout.indent /\ blocks # <<>>
                  /\ ExampleWellFormed(SubSeq(blocks, 1, 1)))
                  => (~announced
                      /\ examples[1].messages[2].content = ExamplePrompt(1))
            /\ (layout.indent \/ \A k \in 1..Len(blocks) : blocks[k].head = "none")
                  => announced

C6_Witness ==
    /\ op = "parse_generated_examples"
    /\ outcome = "returned"
    /\ response # None
    /\ primary_examples(response[1]) = <<>>
    /\ "Trying fallback parsing method" \in console
    /\ Len(blocks) = MaxExamples
    /\ Len(examples) = MaxExamples
    /\ blocks[1].head = "bold"

\* C7: _parse_generated_examples returns a list for every input and never
\* raises: an error inside it (the text-generation step handed it None) is
\* caught and reported, and the call returns the empty list.
C7_ParseExamplesNeverRaises ==
    /\ op = "parse_generated_examples" =>
          /\ outcome = "returned"
          /\ Len(examples) >= 0
          /\ response = None =>
                (examples = <<>> /\ "Error parsing examples" \in console)
    /\ op = "generate_example_batch" => outcome \in {"returned", "api_error"}

C7_Witness ==
    /\ op = "parse_generated_examples"
    /\ outcome = "returned"
    /\ response = None
    /\ examples = <<>>
    /\ "Error parsing examples" \in console
    /\ Len(blocks) = MaxExamples

-----------------------------------------------------------------------------
(* Verification responses: the format the verification prompt asks for     *)
(* ("- **Status:** [VERIFIED/UNVERIFIED/INAPPROPRIATE]", "- **Reason:**",  *)
(* "- **Concerns:**") and the variations of it the parser accepts          *)

\* how the response labels its status: "**Status:**", "Status:", "status:",
\* a "Status:" line followed by a "**Status:**" line, or no status line
StatusMarkers == {"bold", "plain", "lower", "both", "none"}

StatusValues ==
    {"VERIFIED", "verified", "padded", "UNVERIFIED", "INAPPROPRIATE", "unknown",
     "empty"}

\* the text the response puts after the status label
StatusText(value) ==
    CASE value = "padded" -> <<" ", "Verified", " ", " ">>
      [] value = "empty" -> <<>>
      [] OTHER -> <<value>>

VerifyBlocks ==
    [marker : StatusMarkers, value : StatusValues, place : {"first", "last"},
     bullets : BOOLEAN]

Bullet(d) == IF d.bullets THEN <<"-", " ">> ELSE <<>>

BoldLabels(d) == d.marker \in {"bold", "both"}

VerifyLabel(d, label) ==
    IF BoldLabels(d) THEN <<"*", "*", label, ":", "*", "*">> ELSE <<label, ":">>

VerifyLine(d, lay, label, value) ==
    Indent(lay) \o Bullet(d) \o VerifyLabel(d, label) \o <<" ">> \o value
      \o <<"\n">>

StatusLines(d, lay) ==
    IF d.marker = "none" THEN <<>>
    ELSE (IF d.marker = "both"
          THEN Indent(lay) \o Bullet(d) \o <<"Status", ":", " ", "unknown", "\n">>
          ELSE <<>>)
           \o VerifyLine(d, lay, IF d.marker = "lower" THEN "status" ELSE "Status",
                         StatusText(d.value))

OtherLines(d, lay) ==
    VerifyLine(d, lay, "Reason", <<"good">>)
      \o VerifyLine(d, lay, "Concerns", <<"None">>)

RenderVerification(d, lay) ==
    (IF lay.preamble THEN <<"Here", " ", "are", " ", "some", ":", "\n">> ELSE <<>>)
      \o (IF d.place = "first"
          THEN StatusLines(d, lay) \o OtherLines(d, lay)
          ELSE OtherLines(d, lay) \o StatusLines(d, lay))

-----------------------------------------------------------------------------
(* figure_research.py, verify_figure                                       *)

\* researcher.verify_figure(figure_name): the parsed response, or None when
\* the generation step raised ("except Exception as e: ... return None")
verify_figure ==
    /\ calls' = Append(calls, "verify_figure")
    /\ \/ /\ response' = Some(RenderVerification(blocks, layout))
          /\ verification' =
               Some(parse_figure_verification(
                        Name(1), RenderVerification(blocks, layout)))
          /\ UNCHANGED console
       \/ /\ verification' = None
          /\ console' = console \cup {"Error verifying figure"}
          /\ UNCHANGED response

\* one call of verify_figure on a fresh researcher
call_verify_figure ==
    /\ op = "idle"
    /\ op' = "verify_figure"
    /\ verify_figure
    /\ outcome' = IF verification' = None THEN "api_error" ELSE "returned"
    /\ UNCHANGED <<inputVars, retval, figures, examples, analysis, pc, asked>>

InitVerify ==
    /\ Idle
    /\ blocks \in VerifyBlocks
    /\ layout \in Layouts

NextVerify == call_verify_figure

SpecVerify == InitVerify /\ [][NextVerify]_vars

-----------------------------------------------------------------------------
(* Properties of the verification parser                                   *)

\* the status a response states, trimmed and in upper case
StatedStatus(value) ==
    CASE value \in {"VERIFIED", "verified", "padded"} -> <<"VERIFIED">>
      [] value = "UNVERIFIED" -> <<"UNVERIFIED">>
      [] value = "INAPPROPRIATE" -> <<"INAPPROPRIATE">>
      [] value = "unknown" -> <<"UNKNOWN">>
      [] value = "empty" -> <<>>

\* the line after the status line starts with "-" or "*", or there is none
StatusLineBounded(d) == d.place = "last" \/ d.bullets \/ BoldLabels(d)

IsPrefix(a, b) == Len(a) <= Len(b) /\ SubSeq(b, 1, Len(a)) = a

Verified == op = "verify_figure" /\ outcome = "returned"

\* C9, as stated: the status is "UNVERIFIED" when the response has no status
\* marker, and otherwise it is the text extracted after the first matching
\* status marker, trimmed and in upper case, never replaced by a default
C9_StatusIsExtractedText ==
    Verified =>
        LET x == extract_field(response[1], BoldAndPlain("Status"))
            extracted == IF x = None THEN <<>> ELSE x[1]
        IN  /\ blocks.marker = "none" => verification[1].status = <<"UNVERIFIED">>
            /\ blocks.marker # "none" =>
                   verification[1].status = upper(strip(extracted))

\* C9, amended: the status is "UNVERIFIED" when the response has no status
\* marker and also when the status marker is followed by nothing but white
\* space up to the end of the response; when the marker is followed by text
\* the status is that text, trimmed and in upper case ("**Status:**"
\* preferred over "Status:", the marker found in either letter case), running
\* on over the following lines when the next line starts with neither "-"
\* nor "*"; a status outside VERIFIED, UNVERIFIED, INAPPROPRIATE is stored
\* as it is, and a record is returned for every response.
C9_StatusOfVerification ==
    Verified =>
        /\ verification # None
        /\ LET d == blocks
               st == verification[1].status
           IN  /\ d.marker = "none" => st = <<"UNVERIFIED">>
               /\ d.marker # "none" /\ d.value # "empty" /\ StatusLineBounded(d)
                      => st = StatedStatus(d.value)
               /\ d.marker # "none" /\ d.value # "empty" /\ ~StatusLineBounded(d)
                      => /\ IsPrefix(StatedStatus(d.value), st)
                         /\ Occurs("REASON", st)
               /\ d.marker # "none" /\ d.value = "empty" /\ d.place = "last"
                      => st = <<"UNVERIFIED">>
               /\ d.marker # "none" /\ d.value = "empty" /\ d.place = "first"
                      => Occurs("REASON", st) /\ ~Occurs("UNVERIFIED", st)

\* a response with "Status: unknown" and then "**Status:** Verified" padded
\* with blanks has been parsed: the bold marker wins and the status is
\* "VERIFIED"
C9_Witness ==
    /\ Verified
    /\ blocks.marker = "both"
    /\ blocks.value = "padded"
    /\ verification[1].status = <<"VERIFIED">>

-----------------------------------------------------------------------------
(* Analysis responses: the seven headings of the analysis prompt, each     *)
(* followed by a bullet list                                               *)

Sections ==
    <<"TONE ANALYSIS", "VOICE AND PERSPECTIVE", "FORMALITY LEVEL",
      "LENGTH AND STRUCTURE", "UNIQUE CHARACTERISTICS", "TOPICS AND THEMES",
      "HISTORICAL CONTEXT">>

\* the field of FigureAnalysis that holds the k-th section
SectionFields ==
    <<"tone_analysis", "voice_perspective", "formality_level",
      "length_structure", "unique_characteristics", "topics_themes",
      "historical_context">>

SectionTag(k) ==
    <<"s1", "s2", "s3", "s4", "s5", "s6", "s7">>[k]

SectionBody(k) == <<"-", " ", "notes", " ", SectionTag(k)>>

\* which sections the response has, how their headings are written
\* ("**X:**" or "X:") and whether anything stands under the headings
AnalysisBlocks ==
    [present : SUBSET DOMAIN Sections, style : {"bold", "plain"},
     filled : BOOLEAN]

SectionHeading(d, k) ==
    IF d.style = "bold" THEN <<"*", "*", Sections[k], ":", "*", "*">>
    ELSE <<Sections[k], ":">>

RECURSIVE RenderSections(_, _, _)
RenderSections(d, lay, k) ==
    IF k > Len(Sections) THEN <<>>
    ELSE (IF k \in d.present
          THEN Indent(lay) \o SectionHeading(d, k) \o <<"\n">>
                 \o (IF d.filled
                     THEN Indent(lay) \o SectionBody(k) \o <<"\n">>
                     ELSE <<>>)
                 \o <<"\n">>
          ELSE <<>>)
           \o RenderSections(d, lay, k + 1)

RenderAnalysis(d, lay) ==
    (IF lay.preamble THEN <<"Here", " ", "are", " ", "some", ":", "\n">> ELSE <<>>)
      \o RenderSections(d, lay, 1)

-----------------------------------------------------------------------------
(* figure_research.py, analyze_figure                                      *)

\* researcher.analyze_figure(figure_name): the parsed response, or None when
\* the generation step raised ("except Exception as e: ... return None")
analyze_figure ==
    /\ calls' = Append(calls, "analyze_figure")
    /\ \/ /\ analysis' =
               Some(parse_figure_analysis(Name(1), RenderAnalysis(blocks, layout)))
          /\ UNCHANGED console
       \/ /\ analysis' = None
          /\ console' = console \cup {"Error analyzing figure"}

\* one call of analyze_figure on a fresh researcher
call_analyze_figure ==
    /\ op = "idle"
    /\ op' = "analyze_figure"
    /\ analyze_figure
    /\ response' = IF analysis' = None THEN response
                   ELSE Some(RenderAnalysis(blocks, layout))
    /\ outcome' = IF analysis' = None THEN "api_error" ELSE "returned"
    /\ UNCHANGED <<inputVars, retval, figures, examples, verification, pc, asked>>

InitAnalysis ==
    /\ Idle
    /\ blocks \in AnalysisBlocks
    /\ layout \in Layouts

NextAnalysis == call_analyze_figure

SpecAnalysis == InitAnalysis /\ [][NextAnalysis]_vars

-----------------------------------------------------------------------------
(* Properties of the section extractor and the analysis parser             *)

Analyzed == op = "analyze_figure" /\ outcome = "returned"

\* C10: _extract_section returns a text for every response, and exactly
\* "Section not found" when none of its markers occurs in the response; so
\* _parse_figure_analysis builds one record for every response, with the
\* figure's name and seven section fields, each of which is "Section not
\* found" when its heading is not in the response and the text found after its
\* heading (starting with the section's own body, and exactly that body under
\* unindented bold headings) when it is.
C10_SectionsFoundOrNotFound ==
    Analyzed =>
        /\ analysis # None
        /\ DOMAIN analysis[1] =
               {"figure_name"} \cup {SectionFields[k] : k \in DOMAIN Sections}
        /\ analysis[1].figure_name = Name(1)
        /\ \A k \in DOMAIN Sections :
               LET field == analysis[1][SectionFields[k]]
               IN  /\ k \notin blocks.present
                          => /\ ~Contains(response[1], <<Sections[k], ":">>)
                             /\ field = <<"Section not found">>
                   /\ k \in blocks.present
                          => /\ Contains(response[1], <<Sections[k], ":">>)
                             /\ field # <<"Section not found">>
                   /\ k \in blocks.present /\ blocks.filled
                          => IsPrefix(SectionBody(k), field)
                   /\ k \in blocks.present /\ blocks.filled
                        /\ blocks.style = "bold" /\ ~layout.indent
                          => field = SectionBody(k)

\* a response with the first two headings only has been parsed: their fields
\* hold their bodies and the other five are "Section not found"
C10_Witness ==
    /\ Analyzed
    /\ blocks.present = {1, 2}
    /\ blocks.filled
    /\ analysis[1].tone_analysis # <<"Section not found">>
    /\ analysis[1].voice_perspective # <<"Section not found">>
    /\ analysis[1].historical_context = <<"Section not found">>

-----------------------------------------------------------------------------
(* The analyze, build and create commands: historical_author.py.           *)
(* pc is the position of the running command, calls the researcher and     *)
(* generator methods it has called, asked the questions put to the user    *)
(* with the answers typed                                                   *)

Commands ==
    {"analyze_historical_figure", "build_historical_dataset",
     "create_historical_author_interactive"}

\* a verification response and a full analysis response for the same figure
WorkflowBlocks ==
    [marker : StatusMarkers, value : StatusValues, place : {"first", "last"},
     bullets : BOOLEAN, present : {DOMAIN Sections}, style : {"bold"},
     filled : {TRUE}]

\* Confirm.ask(question, default=default): "" is the Enter key
Confirm_ask(answer, default) == IF answer = "" THEN default ELSE answer = "y"

\* the answers to a question with a default, and to one without (which is
\* asked again until "y" or "n" is typed)
AnswersWithDefault == {"y", "n", ""}

AnswersNoDefault == {"y", "n"}

StatusNotInappropriate(v) == v.status # <<"INAPPROPRIATE">>

\* "if verification.status == "VERIFIED": return True"
StatusVerified(v) == v.status = <<"VERIFIED">>

\* the command ends: "raise typer.Exit(1)" or "return"
Ends(result) == outcome' = result /\ pc' = "done"

\* "@historical_app.command("analyze")": the command starts
analyze_historical_figure ==
    /\ pc = "none"
    /\ op' = "analyze_historical_figure"
    /\ pc' = "verify"
    /\ UNCHANGED <<inputVars, retval, response, outcome, figures, examples, console,
                   verification, analysis, calls, asked>>

\* "@historical_app.command("build")": the author must exist and be a
\* historical author
build_historical_dataset ==
    /\ pc = "none"
    /\ op' = "build_historical_dataset"
    /\ UNCHANGED <<inputVars, retval, response, figures, examples, verification,
                   analysis, calls, asked>>
    /\ \E profile \in {"none", "manual", "historical"} :
         IF profile = "historical"
         THEN pc' = "verify" /\ UNCHANGED <<outcome, console>>
         ELSE /\ console' = console \cup
                    {IF profile = "none" THEN "Author not found"
                     ELSE "Not a historical author"}
              /\ Ends("Exit(1)")

\* create_historical_author_interactive: a figure is named on the command
\* line or chosen in the discovery dialogue, or none is selected
create_historical_author_interactive ==
    /\ pc = "none"
    /\ op' = "create_historical_author_interactive"
    /\ UNCHANGED <<inputVars, retval, response, figures, examples, verification,
                   analysis, calls, asked>>
    /\ \E selected_figure \in BOOLEAN :
         IF selected_figure
         THEN pc' = "verify" /\ UNCHANGED <<outcome, console>>
         ELSE /\ console' = console \cup {"No figure selected"}
              /\ Ends("returned")

\* "verification = researcher.verify_figure(...)"
verify_step ==
    /\ pc = "verify"
    /\ verify_figure
    /\ pc' = "handle"
    /\ UNCHANGED <<op, inputVars, retval, outcome, figures, examples, analysis, asked>>

\* the caller of _handle_verification_result got False: analyze and build
\* raise typer.Exit(1), create returns
Refused ==
    Ends(IF op = "create_historical_author_interactive" THEN "returned"
         ELSE "Exit(1)")

\* the caller got True: build analyzes at once, analyze and create first ask
\* whether to proceed
Accepted ==
    /\ pc' = IF op = "build_historical_dataset" THEN "analyze" ELSE "proceed"
    /\ UNCHANGED outcome

\* _handle_verification_result(verification, figure_name) and the caller's
\* "if not ...:"
handle_verification_result ==
    /\ pc = "handle"
    /\ UNCHANGED <<op, inputVars, retval, response, figures, examples, verification,
                   analysis, calls>>
    /\ IF verification = None
       THEN /\ console' = console \cup {"Could not verify figure"}
            /\ UNCHANGED asked
            /\ Refused
       ELSE IF StatusVerified(verification[1])
       THEN /\ UNCHANGED <<console, asked>>
            /\ Accepted
       ELSE /\ console' = console \cup {"Warning: figure is not verified"}
            /\ \E answer \in AnswersWithDefault :
                 /\ asked' = Append(asked, <<"override", answer>>)
                 /\ IF Confirm_ask(answer, FALSE) THEN Accepted ELSE Refused

\* "if not Confirm.ask("Proceed with ...?"): return" of analyze and create
confirm_proceed ==
    /\ pc = "proceed"
    /\ UNCHANGED <<op, inputVars, retval, response, figures, examples, console,
                   verification, analysis, calls>>
    /\ \E answer \in AnswersNoDefault :
         /\ asked' = Append(asked, <<"proceed", answer>>)
         /\ IF answer = "y" THEN pc' = "analyze" /\ UNCHANGED outcome
            ELSE Ends("returned")

\* "analysis = researcher.analyze_figure(...)" and "if not analysis:";
\* analyze then displays the analysis and ends
analyze_step ==
    /\ pc = "analyze"
    /\ analyze_figure
    /\ UNCHANGED <<op, inputVars, retval, response, figures, examples, verification,
                   asked>>
    /\ IF analysis' = None THEN Refused
       ELSE IF op = "analyze_historical_figure" THEN Ends("returned")
       ELSE /\ pc' = IF op = "build_historical_dataset" THEN "dataset"
                     ELSE "profile"
            /\ UNCHANGED outcome

\* build: the stored dataset is loaded and examples are added to it
build_dataset_step ==
    /\ pc = "dataset"
    /\ UNCHANGED <<op, inputVars, retval, response, figures, examples, verification,
                   analysis, asked>>
    /\ \E dataset \in BOOLEAN :
         IF dataset
         THEN /\ calls' = Append(calls, "add_examples_to_dataset")
              /\ UNCHANGED console
              /\ Ends("returned")
         ELSE /\ console' = console \cup {"No dataset found"}
              /\ UNCHANGED calls
              /\ Ends("Exit(1)")

\* create, step 3: the author id is chosen and the profile generated and
\* confirmed, or the command returns
create_profile_step ==
    /\ pc = "profile"
    /\ UNCHANGED <<op, inputVars, retval, response, figures, examples, console,
                   verification, analysis, asked>>
    /\ \E profile \in BOOLEAN :
         IF profile
         THEN /\ calls' = Append(calls, "generate_profile")
              /\ pc' = "generate"
              /\ UNCHANGED outcome
         ELSE /\ UNCHANGED calls
              /\ Ends("returned")

\* create, step 4: generate_initial_dataset(profile, analysis, verification,
\* dataset_size) passes four arguments to a method that takes three; the
\* TypeError is caught by "except Exception", which raises typer.Exit(1)
create_dataset_step ==
    /\ pc = "generate"
    /\ UNCHANGED <<op, inputVars, retval, response, figures, examples, verification,
                   analysis, calls, asked>>
    /\ console' = console \cup {"Error during historical author creation"}
    /\ Ends("Exit(1)")

InitWorkflow ==
    /\ Idle
    /\ blocks \in WorkflowBlocks
    /\ layout \in Layouts

NextWorkflow ==
    \/ analyze_historical_figure
    \/ build_historical_dataset
    \/ create_historical_author_interactive
    \/ verify_step
    \/ handle_verification_result
    \/ confirm_proceed
    \/ analyze_step
    \/ build_dataset_step
    \/ create_profile_step
    \/ create_dataset_step

SpecWorkflow == InitWorkflow /\ [][NextWorkflow]_vars

-----------------------------------------------------------------------------
(* Properties of the commands                                              *)

Called(method) == \E i \in 1..Len(calls) : calls[i] = method

OverrideAsked == \E i \in 1..Len(asked) : asked[i][1] = "override"

OverrideConfirmed == \E i \in 1..Len(asked) : asked[i] = <<"override", "y">>

\* C8: in the analyze, build and create commands analyze_figure is called
\* only after verify_figure, and only when verify_figure returned a record
\* whose status is exactly "VERIFIED" (then no override is asked for) or the
\* user answered "y" to the override question, whose default is no; when
\* verify_figure returns None the command ends without asking for an
\* override and without analyzing.
C8_AnalysisOnlyAfterVerification ==
    /\ op \in Commands \cup {"idle"}
    /\ \A i \in 1..Len(calls) :
           calls[i] = "analyze_figure" =>
               /\ \E j \in 1..(i - 1) : calls[j] = "verify_figure"
               /\ verification # None
               /\ \/ verification[1].status = <<"VERIFIED">> /\ ~OverrideAsked
                  \/ verification[1].status # <<"VERIFIED">> /\ OverrideConfirmed
    /\ OverrideAsked =>
           verification # None /\ verification[1].status # <<"VERIFIED">>
    /\ Called("verify_figure") /\ verification = None /\ pc # "handle" =>
           /\ pc = "done"
           /\ asked = <<>>
           /\ ~Called("analyze_figure")
           /\ outcome = IF op = "create_historical_author_interactive"
                        THEN "returned" ELSE "Exit(1)"
    /\ (\E i \in 1..Len(asked) :
            asked[i][1] = "override" /\ asked[i][2] \in {"n", ""}) =>
           ~Called("analyze_figure") /\ pc = "done"

\* the create command has analyzed a figure whose verification says
\* "UNVERIFIED" after the user confirmed the override
C8_Witness ==
    /\ op = "create_historical_author_interactive"
    /\ Called("analyze_figure")
    /\ verification # None
    /\ verification[1].status = <<"UNVERIFIED">>
    /\ OverrideConfirmed

-----------------------------------------------------------------------------
(* The style guide parser: profile_generator.py, _parse_style_guide,       *)
(* _extract_style_field, _parse_topic_list, _validate_choice. The values   *)
(* of a style guide response are texts of single characters, the field     *)
(* names are atoms                                                         *)

\* str.lower() of one character
Lower(a) ==
    CASE a = "W" -> "w"
      [] a = "N" -> "n"
      [] a = "A" -> "a"
      [] a = "S" -> "s"
      [] a = "F" -> "f"
      [] a = "V" -> "v"
      [] a = "M" -> "m"
      [] a = "T" -> "t"
      [] a = "B" -> "b"
      [] a = "D" -> "d"
      [] a = "K" -> "k"
      [] a = "J" -> "j"
      [] OTHER -> a

\* str.lower()
lower(t) == [i \in 1..Len(t) |-> Lower(t[i])]

\* Python's "s in t" for strings
IsInfix(s, t) ==
    \/ s = <<>>
    \/ \E i \in 1..(Len(t) - Len(s) + 1) :
          t[i] = s[1] /\ SubSeq(t, i, i + Len(s) - 1) = s

\* value.replace("**", ""): the leftmost "**" is removed, then those of the
\* text after it
RECURSIVE replace_bold(_)
replace_bold(value) ==
    LET hits == {i \in 1..(Len(value) - 1) :
                    value[i] = "*" /\ value[i + 1] = "*"}
    IN  IF hits = {} THEN value
        ELSE SubSeq(value, 1, Min(hits) - 1)
               \o replace_bold(SubSeq(value, Min(hits) + 2, Len(value)))

\* re.search(marker + r"\s*\[(.+?)\]", text, re.DOTALL | re.IGNORECASE): the
\* group <<k, e>> of the leftmost match, <<>> when there is none
bracket_search(text, marker) ==
    LET open(i) == WsEnd(text, i + Len(marker))
        close(i) == FirstIn(text, open(i) + 2, {"]"})
        leftmost(starts) ==
            IF starts = {} THEN <<>>
            ELSE <<open(Min(starts)) + 1, close(Min(starts))>>
    IN  leftmost({i \in 1..Len(text) :
                     /\ MatchLit(text, i, marker, TRUE)
                     /\ open(i) <= Len(text)
                     /\ text[open(i)] = "["
                     /\ close(i) <= Len(text)})

\* the four patterns in turn; a match whose cleaned value is empty is passed
\* over
extract_style_field(text, field_name) ==
    LET value(m) == strip(replace_bold(strip(SubSeq(text, m[1], m[2] - 1))))
        first(found) ==
            LET hits == {k \in 1..4 :
                            found[k] # <<>> /\ value(found[k]) # <<>>}
            IN  IF hits = {} THEN None ELSE Some(value(found[Min(hits)]))
        patterns(bold, plain) ==
            first(<< bracket_search(text, bold),
                     marker_search("bold", text, bold, 1),
                     bracket_search(text, plain),
                     marker_search("label", text, plain, 1) >>)
    IN  patterns(<<"*", "*", field_name, ":", "*", "*">>, <<field_name, ":">>)

\* text.split(",")
RECURSIVE split_commas(_)
split_commas(text) ==
    LET c == FirstIn(text, 1, {","})
    IN  IF c > Len(text) THEN <<text>>
        ELSE <<SubSeq(text, 1, c - 1)>>
               \o split_commas(SubSeq(text, c + 1, Len(text)))

\* the entries a topic list drops: ["none", "n/a", "not specified"]
TopicArtifacts ==
    { <<"n", "o", "n", "e">>,
      <<"n", "/", "a">>,
      <<"n", "o", "t", " ", "s", "p", "e", "c", "i", "f", "i", "e", "d">> }

\* topics[:10]
TopicLimit == 10

\* the cut made before the entries are filtered
parse_topic_list_cut_first(text) ==
    IF text = <<>> THEN <<>>
    ELSE LET parts == split_commas(text)
             kept(topic) == topic # <<>> /\ lower(topic) \notin TopicArtifacts
             cut(topics) == SubSeq(topics, 1, Min({TopicLimit, Len(topics)}))
         IN  SelectSeq(cut([i \in 1..Len(parts) |-> strip(parts[i])]), kept)

parse_topic_list(text) ==
    IF text = <<>> THEN <<>>
    ELSE LET parts == split_commas(text)
             kept(topic) == topic # <<>> /\ lower(topic) \notin TopicArtifacts
             cut(topics) == SubSeq(topics, 1, Min({TopicLimit, Len(topics)}))
         IN  cut(SelectSeq([i \in 1..Len(parts) |-> strip(parts[i])], kept))

\* a value handed on as it was read
validate_choice_unchecked(value, valid_choices, default) == value

\* one loop only: the first choice that equals, contains or is contained in
\* the value
validate_choice_partial_first(value, valid_choices, default) ==
    LET alike == {i \in DOMAIN valid_choices :
                     \/ IsInfix(lower(value), lower(valid_choices[i]))
                     \/ IsInfix(lower(valid_choices[i]), lower(value))}
    IN  IF alike # {} THEN valid_choices[Min(alike)] ELSE default

\* the exact match first, then the first choice that contains the value or
\* is contained in it, then the default
validate_choice(value, valid_choices, default) ==
    LET value_lower == lower(value)
        exact == {i \in DOMAIN valid_choices :
                     lower(valid_choices[i]) = value_lower}
        partial == {i \in DOMAIN valid_choices :
                       \/ IsInfix(value_lower, lower(valid_choices[i]))
                       \/ IsInfix(lower(valid_choices[i]), value_lower)}
    IN  IF exact # {} THEN valid_choices[Min(exact)]
        ELSE IF partial # {} THEN valid_choices[Min(partial)]
        ELSE default

\* the valid_choices of the four enumerated fields, in the order of the code
ToneChoices ==
    << <<"c", "a", "s", "u", "a", "l">>,
       <<"p", "r", "o", "f", "e", "s", "s", "i", "o", "n", "a", "l">>,
       <<"f", "r", "i", "e", "n", "d", "l", "y">>,
       <<"a", "u", "t", "h", "o", "r", "i", "t", "a", "t", "i", "v", "e">>,
       <<"w", "i", "t", "t", "y">>,
       <<"f", "o", "r", "m", "a", "l">> >>

VoiceChoices ==
    << <<"f", "i", "r", "s", "t", "_", "p", "e", "r", "s", "o", "n">>,
       <<"s", "e", "c", "o", "n", "d", "_", "p", "e", "r", "s", "o", "n">>,
       <<"t", "h", "i", "r", "d", "_", "p", "e", "r", "s", "o", "n">> >>

FormalityChoices ==
    << <<"v", "e", "r", "y", "_", "c", "a", "s", "u", "a", "l">>,
       <<"c", "a", "s", "u", "a", "l">>,
       <<"m", "o", "d", "e", "r", "a", "t", "e">>,
       <<"f", "o", "r", "m", "a", "l">>,
       <<"a", "c", "a", "d", "e", "m", "i", "c">> >>

LengthChoices ==
    << <<"s", "h", "o", "r", "t">>,
       <<"m", "e", "d", "i", "u", "m">>,
       <<"l", "o", "n", "g">>,
       <<"v", "a", "r", "i", "a", "b", "l", "e">> >>

StyleGuide(tone, voice, formality, length_preference, topics, avoid_topics, writing_style_notes) ==
    [tone |-> tone, voice |-> voice, formality |-> formality,
     length_preference |-> length_preference, topics |-> topics,
     avoid_topics |-> avoid_topics, writing_style_notes |-> writing_style_notes]

\* _parse_style_guide(response, figure_name): no statement of the try block
\* raises on a text
parse_style_guide(resp) ==
    Some(StyleGuide(
        validate_choice(OrDefault(extract_style_field(resp, "TONE"),
                                  ToneChoices[2]), ToneChoices, ToneChoices[2]),
        validate_choice(OrDefault(extract_style_field(resp, "VOICE"),
                                  VoiceChoices[1]), VoiceChoices, VoiceChoices[1]),
        validate_choice(OrDefault(extract_style_field(resp, "FORMALITY"),
                                  FormalityChoices[3]),
                        FormalityChoices, FormalityChoices[3]),
        validate_choice(OrDefault(extract_style_field(resp, "LENGTH_PREFERENCE"),
                                  LengthChoices[2]),
                        LengthChoices, LengthChoices[2]),
        parse_topic_list(
            OrDefault(extract_style_field(resp, "PREFERRED_TOPICS"), <<>>)),
        parse_topic_list(
            OrDefault(extract_style_field(resp, "AVOID_TOPICS"), <<>>)),
        OrDefault(extract_style_field(resp, "WRITING_STYLE_NOTES"), <<>>)))

-----------------------------------------------------------------------------
(* Style guide responses: the fields of STYLE_GUIDE_GENERATION_TEMPLATE,   *)
(* one to a line, with the values a model may give them. blocks are the    *)
(* values (<<>>: the response has no such line), layout is the way the     *)
(* lines are written                                                       *)

\* an enumerated tone, one in capitals, a part of one, one inside a phrase,
\* an unknown one, a single letter, one in bold, none
ToneValues ==
    { <<"w", "i", "t", "t", "y">>,
      <<"W", "i", "t", "t", "y">>,
      <<"w", "i", "t">>,
      <<"v", "e", "r", "y", " ", "f", "o", "r", "m", "a", "l">>,
      <<"g", "r", "u", "m", "p", "y">>,
      <<"a">>,
      <<"*", "*", "f", "o", "r", "m", "a", "l", "*", "*">>,
      <<>> }

VoiceValues ==
    { <<"t", "h", "i", "r", "d", "_", "p", "e", "r", "s", "o", "n">>,
      <<"w", "e">>,
      <<" ">>,
      <<>> }

FormalityValues ==
    { <<"a", "c", "a", "d", "e", "m", "i", "c">>,
      <<"i", "n", "f", "o", "r", "m", "a", "l">>,
      <<"s", "t", "i", "f", "f">> }

LengthValues ==
    { <<"l", "o", "n", "g">>,
      <<"e", "p", "i", "c">>,
      <<>> }

TopicValues ==
    { <<"w", "a", "r", ",", " ", "n", "o", "n", "e", ",", " ", "w", "i", "t">>,
      <<"n", "o", "n", "e">> }

StyleBlocks ==
    [tone : ToneValues, voice : VoiceValues, formality : FormalityValues,
     length : LengthValues, topics : TopicValues]

\* "**TONE:** [witty]", "**TONE:** witty", "TONE: [witty]" or "TONE: witty"
StyleLayouts == [bold : BOOLEAN, brackets : BOOLEAN]

StyleLine(l, label, value) ==
    IF value = <<>> THEN <<>>
    ELSE (IF l.bold THEN <<"*", "*", label, ":", "*", "*">> ELSE <<label, ":">>)
           \o <<" ">>
           \o (IF l.brackets THEN <<"[">> \o value \o <<"]">> ELSE value)
           \o <<"\n">>

RenderStyle(d, l) ==
    StyleLine(l, "TONE", d.tone) \o StyleLine(l, "VOICE", d.voice)
      \o StyleLine(l, "FORMALITY", d.formality)
      \o StyleLine(l, "LENGTH_PREFERENCE", d.length)
      \o StyleLine(l, "PREFERRED_TOPICS", d.topics)
      \o StyleLine(l, "AVOID_TOPICS", <<"n", "/", "a">>)
      \o StyleLine(l, "WRITING_STYLE_NOTES", <<"d", "r", "y", " ", "w", "i", "t">>)

-----------------------------------------------------------------------------
(* profile_generator.py, generate_style_guide                              *)

\* generator.generate_style_guide(figure_analysis): the parsed response, or
\* None when the generation step raised ("except Exception as e: ... return
\* None")
generate_style_guide ==
    /\ calls' = Append(calls, "generate_style_guide")
    /\ \/ /\ response' = Some(RenderStyle(blocks, layout))
          /\ retval' = parse_style_guide(RenderStyle(blocks, layout))
          /\ UNCHANGED console
       \/ /\ retval' = None
          /\ console' = console \cup {"Error generating style guide"}
          /\ UNCHANGED response

\* one call of generate_style_guide on a fresh generator
call_generate_style_guide ==
    /\ op = "idle"
    /\ op' = "generate_style_guide"
    /\ generate_style_guide
    /\ outcome' = IF retval' = None THEN "api_error" ELSE "returned"
    /\ UNCHANGED <<inputVars, figures, examples, verification, analysis, pc,
                   asked>>

InitStyle ==
    /\ Idle
    /\ blocks \in StyleBlocks
    /\ layout \in StyleLayouts

NextStyle == call_generate_style_guide

SpecStyle == InitStyle /\ [][NextStyle]_vars

-----------------------------------------------------------------------------
(* Properties of the style guide parser                                    *)

Range(s) == {s[i] : i \in DOMAIN s}

StyleParsed == op = "generate_style_guide" /\ outcome = "returned"

\* C11: whenever _parse_style_guide returns a style guide, its tone, voice,
\* formality and length_preference are each one of the values enumerated
\* for the field, whatever the response gave for them (a value outside the
\* set, a blank one, or no line at all).
C11_StyleFieldsEnumerated ==
    StyleParsed =>
        /\ retval # None
        /\ retval[1].tone \in Range(ToneChoices)
        /\ retval[1].voice \in Range(VoiceChoices)
        /\ retval[1].formality \in Range(FormalityChoices)
        /\ retval[1].length_preference \in Range(LengthChoices)

\* a response with an unknown tone, a blank voice, an unknown formality and
\* no length line was parsed into a style guide that holds the defaults
C11_Witness ==
    /\ StyleParsed
    /\ blocks.tone = <<"g", "r", "u", "m", "p", "y">>
    /\ blocks.voice = <<" ">>
    /\ blocks.formality = <<"s", "t", "i", "f", "f">>
    /\ blocks.length = <<>>
    /\ retval[1].tone = ToneChoices[2]
    /\ retval[1].voice = VoiceChoices[1]
    /\ retval[1].formality = FormalityChoices[3]
    /\ retval[1].length_preference = LengthChoices[2]

\* the response has the line "**TONE:** [v]"
ToneBracketed == layout.bold /\ layout.brackets /\ blocks.tone # <<>>

\* the enumerated tones that equal c when case is ignored, and those that
\* contain c or are contained in c when case is ignored
TonesEqual(c) ==
    {i \in DOMAIN ToneChoices :
        [k \in DOMAIN c |-> Lower(c[k])] = ToneChoices[i]}

TonesAlike(c) ==
    {i \in DOMAIN ToneChoices :
        \/ IsInfix([k \in DOMAIN c |-> Lower(c[k])], ToneChoices[i])
        \/ IsInfix(ToneChoices[i], [k \in DOMAIN c |-> Lower(c[k])])}

\* the tone the parser gives for the bracket content v
ToneFor(c) ==
    IF TonesEqual(c) # {} THEN ToneChoices[Min(TonesEqual(c))]
    ELSE IF TonesAlike(c) # {} THEN ToneChoices[Min(TonesAlike(c))]
    ELSE ToneChoices[2]

\* C12 as stated: from "**TONE:** [v]" the tone is v when v is one of the
\* six enumerated tones and "professional" whenever it is not.
C12_UnknownToneIsDefault ==
    (StyleParsed /\ ToneBracketed) =>
        /\ retval # None
        /\ retval[1].tone =
             IF blocks.tone \in Range(ToneChoices) THEN blocks.tone
             ELSE ToneChoices[2]

\* C12: from "**TONE:** [v]" a style guide is always returned; its tone is v
\* when v is one of the six enumerated tones; otherwise, with v taken
\* without "**" and ignoring case, it is the first enumerated tone equal to
\* v, else the first one that contains v or is contained in v, and
\* "professional" only when there is none.
C12_ToneOfBracketedValue ==
    (StyleParsed /\ ToneBracketed) =>
        /\ retval # None
        /\ blocks.tone \in Range(ToneChoices) => retval[1].tone = blocks.tone
        /\ retval[1].tone = ToneFor(replace_bold(blocks.tone))

\* "**TONE:** [very formal]" was parsed, and the tone is "formal"
C12_Witness ==
    /\ StyleParsed
    /\ ToneBracketed
    /\ blocks.tone = <<"v", "e", "r", "y", " ", "f", "o", "r", "m", "a", "l">>
    /\ retval[1].tone = ToneChoices[6]

-----------------------------------------------------------------------------
(* Topic lists: the texts _parse_topic_list is given. blocks tell how many *)
(* entries the text has, which of them are no topics and what stands in    *)
(* their place; layout tells whether the entries are padded with blanks    *)
(* and whether they are all the same topic                                 *)

MaxTopics == 13

\* what stands in the place of a topic
TopicFillers ==
    {"empty", "blank", "none", "None", "N/A", "Not Specified", "nonesuch"}

TopicFiller(kind) ==
    CASE kind = "empty" -> <<>>
      [] kind = "blank" -> <<" ">>
      [] kind = "none" -> <<"n", "o", "n", "e">>
      [] kind = "None" -> <<"N", "o", "n", "e">>
      [] kind = "N/A" -> <<"N", "/", "A">>
      [] kind = "Not Specified" -> <<"N", "o", "t", " ", "S", "p", "e", "c", "i", "f", "i", "e", "d">>
      [] kind = "nonesuch" -> <<"n", "o", "n", "e", "s", "u", "c", "h">>

\* the filler is a word the parser keeps
FillerKept(kind) == kind = "nonesuch"

\* every step-th entry is a filler; step 0: there are none
TopicBlocks ==
    [count : 0..MaxTopics, filler : TopicFillers, step : {0, 2, 3, 5}]

TopicLayouts == [padded : BOOLEAN, same : BOOLEAN]

IsFiller(d, i) == d.step # 0 /\ i % d.step = 0

TopicLetters == <<"a", "b", "c", "d", "e", "f", "g", "h", "i", "j", "k", "l", "m", "n", "o", "p">>

\* the i-th topic
TopicWord(l, i) ==
    IF l.same THEN <<"w", "a", "r">> ELSE <<"t", TopicLetters[i], " ", "x">>

TopicEntry(d, l, i) ==
    LET word == IF IsFiller(d, i) THEN TopicFiller(d.filler) ELSE TopicWord(l, i)
    IN  IF l.padded THEN <<" ">> \o word \o <<" ", " ">> ELSE word

RECURSIVE RenderTopicsFrom(_, _, _)
RenderTopicsFrom(d, l, i) ==
    IF i > d.count THEN <<>>
    ELSE TopicEntry(d, l, i)
           \o (IF i < d.count THEN <<",">> ELSE <<>>)
           \o RenderTopicsFrom(d, l, i + 1)

RenderTopics(d, l) == RenderTopicsFrom(d, l, 1)

\* ", ".join(topics)
RECURSIVE join_topics(_)
join_topics(topics) ==
    IF topics = <<>> THEN <<>>
    ELSE IF Len(topics) = 1 THEN topics[1]
    ELSE topics[1] \o <<",", " ">> \o join_topics(Tail(topics))

-----------------------------------------------------------------------------
(* profile_generator.py, _parse_topic_list                                 *)

\* one call of _parse_topic_list on the text of the response
call_parse_topic_list ==
    /\ op = "idle"
    /\ op' = "parse_topic_list"
    /\ response' = Some(RenderTopics(blocks, layout))
    /\ retval' = Some(parse_topic_list(RenderTopics(blocks, layout)))
    /\ outcome' = "returned"
    /\ calls' = Append(calls, "parse_topic_list")
    /\ UNCHANGED <<inputVars, figures, examples, console, verification,
                   analysis, pc, asked>>

\* a second call, on the list the first call returned joined with ", "
call_parse_joined_topics ==
    /\ op = "parse_topic_list"
    /\ op' = "parse_joined_topics"
    /\ response' = Some(join_topics(retval[1]))
    /\ retval' = Some(parse_topic_list(join_topics(retval[1])))
    /\ outcome' = "returned"
    /\ calls' = Append(calls, "parse_topic_list")
    /\ UNCHANGED <<inputVars, figures, examples, console, verification,
                   analysis, pc, asked>>

InitTopics ==
    /\ Idle
    /\ blocks \in TopicBlocks
    /\ layout \in TopicLayouts

NextTopics == call_parse_topic_list \/ call_parse_joined_topics

SpecTopics == InitTopics /\ [][NextTopics]_vars

-----------------------------------------------------------------------------
(* Properties of the topic list parser                                     *)

\* the entries of the text that are topics, by position
TopicsAt(d) ==
    {i \in 1..d.count : ~IsFiller(d, i) \/ FillerKept(d.filler)}

\* the n-th smallest member of a set of numbers
Nth(S, n) == CHOOSE i \in S : Cardinality({j \in S : j <= i}) = n

\* the text of the entry at position i, trimmed
TopicAt(d, l, i) ==
    IF IsFiller(d, i) THEN TopicFiller(d.filler) ELSE TopicWord(l, i)

\* C13: _parse_topic_list returns the entries of the text between the
\* commas, trimmed and in their order, without the empty ones and without
\* "none", "n/a" and "not specified" in any letter case; of the entries that
\* remain it returns the first 10, so the fillers among the first entries
\* do not count against the limit, and equal entries are all kept.
C13_TopicsTrimmedFilteredCapped ==
    op = "parse_topic_list" =>
        /\ retval # None
        /\ Len(retval[1]) = Min({10, Cardinality(TopicsAt(blocks))})
        /\ \A n \in 1..Len(retval[1]) :
              retval[1][n] = TopicAt(blocks, layout, Nth(TopicsAt(blocks), n))

\* a padded list of 13 topics with "N/A" in the fifth and the tenth place:
\* 11 topics remain, and the tenth one returned is the twelfth entry
C13_Witness ==
    /\ op = "parse_topic_list"
    /\ blocks = [count |-> 13, filler |-> "N/A", step |-> 5]
    /\ layout = [padded |-> TRUE, same |-> FALSE]
    /\ Len(retval[1]) = 10
    /\ retval[1][10] = TopicWord(layout, 12)

\* C14: parsing the list a first parse returned, joined with ", ", returns
\* that list again, entry for entry.
C14_ParsingJoinedTopicsIsIdentity ==
    [][op' = "parse_joined_topics" => retval' = retval]_vars

\* the list parsed from a padded text with fillers was joined and parsed
\* again, and has several entries
C14_Witness ==
    /\ op = "parse_joined_topics"
    /\ layout.padded
    /\ blocks.step # 0
    /\ Len(retval[1]) >= 2
    /\ Len(response[1]) > Len(retval[1])

-----------------------------------------------------------------------------
(* The search-mode classifier: historical_author.py, _detect_search_mode.  *)
(* A query is a text of single characters                                  *)

\* str.isupper() of one character
isupper(a) == Lower(a) # a

\* str.split(): the maximal runs of characters that are no white space
RECURSIVE split_words(_)
split_words(t) ==
    LET s == FirstNotIn(t, 1, Ws)
        e == FirstIn(t, s, Ws)
    IN  IF s > Len(t) THEN <<>>
        ELSE <<SubSeq(t, s, e - 1)>> \o split_words(SubSeq(t, e, Len(t)))

\* any(part in query_lower for part in parts)
any_in(parts, query_lower) == \E part \in parts : IsInfix(part, query_lower)

NameParticles ==
    { <<" ", "d", "e", " ">>,
      <<" ", "d", "a", " ">>,
      <<" ", "v", "o", "n", " ">>,
      <<" ", "v", "a", "n", " ">>,
      <<" ", "e", "l", " ">>,
      <<" ", "a", "l", "-">> }

PersonalTitles ==
    { <<"s", "i", "r", " ">>,
      <<"l", "o", "r", "d", " ">>,
      <<"l", "a", "d", "y", " ">>,
      <<"d", "r", ".", " ">>,
      <<"p", "r", "o", "f", "e", "s", "s", "o", "r", " ">>,
      <<"s", "a", "i", "n", "t", " ">>,
      <<"s", "t", ".", " ">> }

Adjectives ==
    { <<"f", "a", "m", "o", "u", "s">>,
      <<"g", "r", "e", "a", "t">>,
      <<"i", "n", "f", "l", "u", "e", "n", "t", "i", "a", "l">>,
      <<"n", "o", "t", "a", "b", "l", "e">>,
      <<"r", "e", "n", "o", "w", "n", "e", "d">>,
      <<"a", "m", "e", "r", "i", "c", "a", "n">>,
      <<"b", "r", "i", "t", "i", "s", "h">>,
      <<"f", "r", "e", "n", "c", "h">>,
      <<"a", "n", "c", "i", "e", "n", "t">>,
      <<"m", "o", "d", "e", "r", "n">>,
      <<"c", "l", "a", "s", "s", "i", "c", "a", "l">> }

Plurals ==
    { <<"w", "r", "i", "t", "e", "r", "s">>,
      <<"a", "u", "t", "h", "o", "r", "s">>,
      <<"p", "o", "e", "t", "s">>,
      <<"p", "h", "i", "l", "o", "s", "o", "p", "h", "e", "r", "s">>,
      <<"s", "c", "i", "e", "n", "t", "i", "s", "t", "s">>,
      <<"h", "i", "s", "t", "o", "r", "i", "a", "n", "s">>,
      <<"p", "o", "l", "i", "t", "i", "c", "i", "a", "n", "s">> }

Periods ==
    { <<"c", "e", "n", "t", "u", "r", "y">>,
      <<"e", "r", "a">>,
      <<"p", "e", "r", "i", "o", "d">>,
      <<"a", "g", "e">>,
      <<"r", "e", "n", "a", "i", "s", "s", "a", "n", "c", "e">>,
      <<"m", "e", "d", "i", "e", "v", "a", "l">>,
      <<"v", "i", "c", "t", "o", "r", "i", "a", "n">>,
      <<"m", "o", "d", "e", "r", "n">> }

QuestionWords ==
    { <<"w", "h", "o">>,
      <<"w", "h", "a", "t">>,
      <<"w", "h", "i", "c", "h">>,
      <<"t", "y", "p", "e", " ", "o", "f">>,
      <<"k", "i", "n", "d", " ", "o", "f">> }

name_indicators(query) ==
    LET indicators(words, query_lower) ==
            << Cardinality({i \in DOMAIN words : isupper(words[i][1])}) >= 2,
               any_in(NameParticles, query_lower),
               Len(words) <= 3 /\ Len(query) <= 30,
               any_in(PersonalTitles, query_lower) >>
    IN  indicators(split_words(query), strip(lower(query)))

\* the description signals without the one for queries of five words or more
description_indicators_any_length(query) ==
    LET indicators(words, query_lower) ==
            << any_in(Adjectives, query_lower),
               any_in(Plurals, query_lower),
               any_in(Periods, query_lower),
               FALSE,
               any_in(QuestionWords, query_lower) >>
    IN  indicators(split_words(query), strip(lower(query)))

description_indicators(query) ==
    LET indicators(words, query_lower) ==
            << any_in(Adjectives, query_lower),
               any_in(Plurals, query_lower),
               any_in(Periods, query_lower),
               Len(words) > 4,
               any_in(QuestionWords, query_lower) >>
    IN  indicators(split_words(query), strip(lower(query)))

\* sum(indicators)
score(indicators) == Cardinality({i \in DOMAIN indicators : indicators[i]})

\* a decision that looks at the name signals first
mode_of_scores_name_first(name_score, description_score) ==
    IF name_score >= 2 THEN "name" ELSE "description"

\* the decision: lines 124-137
mode_of_scores(name_score, description_score) ==
    IF description_score >= 2 THEN "description"
    ELSE IF name_score >= 2 /\ description_score = 0 THEN "name"
    ELSE "description"

detect_search_mode(query) ==
    mode_of_scores(score(name_indicators(query)),
                   score(description_indicators(query)))

-----------------------------------------------------------------------------
(* Queries: blocks are the words of the query, layout the words that       *)
(* follow them and the blanks around the query                             *)

MaxWords == 3

QueryWords ==
    { <<"M", "a", "r", "k">>,
      <<"T", "w", "a", "i", "n">>,
      <<"V", "e", "r", "a">>,
      <<"B", "r", "i", "t", "t", "a", "i", "n">>,
      <<"D", "r", ".">>,
      <<"d", "e">>,
      <<"f", "a", "m", "o", "u", "s">>,
      <<"a", "u", "t", "h", "o", "r", "s">>,
      <<"w", "h", "o">>,
      <<"W", "o", "l", "l", "s", "t", "o", "n", "e", "c", "r", "a", "f", "t">> }

QueryBlocks == UNION {[1..n -> QueryWords] : n \in 0..MaxWords}

QueryTails == { <<>>, << <<"K", "i", "n", "g">> >>, << <<"K", "i", "n", "g">>, <<"J", "r", ".">> >> }

QueryLayouts == [tail : QueryTails, padded : BOOLEAN]

RECURSIVE join_words(_)
join_words(words) ==
    IF words = <<>> THEN <<>>
    ELSE IF Len(words) = 1 THEN words[1]
    ELSE words[1] \o <<" ">> \o join_words(Tail(words))

Query(d, l) ==
    IF l.padded THEN <<" ">> \o join_words(d \o l.tail) \o <<" ">>
    ELSE join_words(d \o l.tail)

\* one call of _detect_search_mode; a further call is made on the same query
call_detect_search_mode ==
    /\ op \in {"idle", "detect_search_mode"}
    /\ Len(calls) < 2
    /\ op' = "detect_search_mode"
    /\ retval' = Some(detect_search_mode(Query(blocks, layout)))
    /\ outcome' = "returned"
    /\ calls' = Append(calls, "detect_search_mode")
    /\ UNCHANGED <<inputVars, response, figures, examples, console,
                   verification, analysis, pc, asked>>

InitSearch ==
    /\ Idle
    /\ blocks \in QueryBlocks
    /\ layout \in QueryLayouts

NextSearch == call_detect_search_mode

SpecSearch == InitSearch /\ [][NextSearch]_vars

-----------------------------------------------------------------------------
(* Properties of the search-mode classifier                                *)

Classified == op = "detect_search_mode"

\* the number of name signals and of description signals of the query
Holding(indicators) == Cardinality({i \in DOMAIN indicators : indicators[i]})

NameSignals == Holding(name_indicators(Query(blocks, layout)))

DescriptionSignals == Holding(description_indicators(Query(blocks, layout)))

\* C15: _detect_search_mode returns "name" or "description" for every
\* query: "name" exactly when at least two name signals and no description
\* signal hold, "description" otherwise; a second call on the same query
\* returns the same.
C15_NameIffTwoNameSignalsAndNoDescriptionSignal ==
    Classified =>
        /\ retval \in {Some("name"), Some("description")}
        /\ retval = Some("name") <=>
             (NameSignals >= 2 /\ DescriptionSignals = 0)

\* a query with two name signals and one description signal was classified
\* twice, and is a description
C15_Witness ==
    /\ Classified
    /\ Len(calls) = 2
    /\ NameSignals >= 2
    /\ DescriptionSignals = 1
    /\ retval = Some("description")

\* the words the description signals list
ListedWords == Adjectives \cup Plurals \cup Periods \cup QuestionWords

\* the personal titles as words
TitleWords == {strip(title) : title \in PersonalTitles}

\* the query is a personal name: two or three capitalised words, or a title
\* and up to three capitalised words, in at most 30 characters, none of the
\* words being a listed word
PersonalName(query) ==
    LET words == split_words(query)
    IN  /\ Len(query) <= 30
        /\ \A i \in DOMAIN words :
              isupper(words[i][1]) /\ lower(words[i]) \notin ListedWords
        /\ \/ Len(words) \in {2, 3}
           \/ Len(words) = 4 /\ lower(words[1]) \in TitleWords

\* C16 as stated: a query that is a personal name is classified "name".
C16_PersonalNameIsName ==
    (Classified /\ PersonalName(Query(blocks, layout))) =>
        retval = Some("name")

-----------------------------------------------------------------------------
(* Training examples: models.py, TrainingExample.validate_messages. A      *)
(* message is a dictionary: a function from its keys to texts              *)

ValidRoles == {"system", "user", "assistant"}

\* a validator that does not count the messages
validate_messages_uncounted(v) ==
    LET bad == {i \in DOMAIN v :
                   \/ "role" \notin DOMAIN v[i]
                   \/ "content" \notin DOMAIN v[i]
                   \/ v[i]["role"] \notin ValidRoles}
    IN  IF bad = {} THEN None
        ELSE IF "role" \notin DOMAIN v[Min(bad)]
                  \/ "content" \notin DOMAIN v[Min(bad)]
        THEN Some("Each message must have 'role' and 'content' fields")
        ELSE Some("Role must be one of {'system', 'user', 'assistant'}")

\* validate_messages(cls, v): None when v is returned, the ValueError raised
\* otherwise; the messages are looked at in order and the first one that
\* fails decides the error
validate_messages(v) ==
    IF v = <<>> \/ Len(v) < 2
    THEN Some("Training example must have at least 2 messages")
    ELSE LET bad == {i \in DOMAIN v :
                        \/ "role" \notin DOMAIN v[i]
                        \/ "content" \notin DOMAIN v[i]
                        \/ v[i]["role"] \notin ValidRoles}
         IN  IF bad = {} THEN None
             ELSE IF "role" \notin DOMAIN v[Min(bad)]
                       \/ "content" \notin DOMAIN v[Min(bad)]
             THEN Some("Each message must have 'role' and 'content' fields")
             ELSE Some("Role must be one of {'system', 'user', 'assistant'}")

-----------------------------------------------------------------------------
(* Message lists: blocks are the kinds of the messages, in order           *)

MaxMessages == 3

MessageKinds ==
    {"system", "user", "assistant", "invalid_role", "User", "no_role",
     "no_content", "empty_content", "with_name"}

Message(kind) ==
    CASE kind \in {"system", "user", "assistant", "invalid_role", "User"} ->
             [k \in {"role", "content"} |->
                 IF k = "role" THEN kind ELSE "Hello"]
      [] kind = "no_role" -> [k \in {"content"} |-> "Hello"]
      [] kind = "no_content" -> [k \in {"role"} |-> "user"]
      [] kind = "empty_content" ->
             [k \in {"role", "content"} |-> IF k = "role" THEN "user" ELSE ""]
      [] kind = "with_name" ->
             [k \in {"role", "content", "name"} |->
                 IF k = "role" THEN "assistant" ELSE "Hi"]

MessageBlocks == UNION {[1..n -> MessageKinds] : n \in 0..MaxMessages}

Messages(d) == [i \in DOMAIN d |-> Message(d[i])]

\* TrainingExample(messages=messages): the record, or the ValidationError
\* that carries the validator's ValueError
construct_training_example ==
    /\ op = "idle"
    /\ op' = "TrainingExample"
    /\ calls' = Append(calls, "validate_messages")
    /\ IF validate_messages(Messages(blocks)) = None
       THEN /\ outcome' = "returned"
            /\ retval' = Some([messages |-> Messages(blocks)])
            /\ UNCHANGED console
       ELSE /\ outcome' = "ValidationError"
            /\ retval' = None
            /\ console' = console \cup {validate_messages(Messages(blocks))[1]}
    /\ UNCHANGED <<inputVars, response, figures, examples, verification,
                   analysis, pc, asked>>

InitMessages ==
    /\ Idle
    /\ blocks \in MessageBlocks
    /\ layout = "messages"

NextMessages == construct_training_example

SpecMessages == InitMessages /\ [][NextMessages]_vars

-----------------------------------------------------------------------------
(* Properties of the training example validator                            *)

\* the kinds of message that lack a field or have a role that is not valid
RejectedKinds == {"invalid_role", "User", "no_role", "no_content"}

\* C17: constructing a TrainingExample raises a validation error exactly
\* when the list has fewer than 2 messages, or a message has no "role" or no
\* "content", or a role is none of system, user, assistant; otherwise the
\* example is constructed and holds the list as it was given.
C17_RejectedIffShortOrMalformed ==
    op = "TrainingExample" =>
        /\ outcome \in {"returned", "ValidationError"}
        /\ outcome = "ValidationError" <=>
             \/ Len(blocks) < 2
             \/ \E i \in DOMAIN blocks : blocks[i] \in RejectedKinds
        /\ outcome = "returned" => retval = Some([messages |-> Messages(blocks)])
        /\ outcome = "ValidationError" => retval = None /\ console # {}

\* a list of a user message and an assistant message with a further key,
\* without a system message, was accepted as it is
C17_Witness ==
    /\ op = "TrainingExample"
    /\ blocks = <<"user", "with_name">>
    /\ outcome = "returned"
    /\ retval[1].messages[2]["name"] = "Hi"

-----------------------------------------------------------------------------
(* The generation step of the seven operations that call                   *)
(* adapter.generate_text inside "try: ... except Exception as e:":         *)
(* figure_research.py discover_figures, search_by_name, analyze_figure,    *)
(* verify_figure, refine_search; profile_generator.py generate_style_guide;*)
(* dataset_generator.py _generate_example_batch. pc is the position in the *)
(* operation, calls the calls made to the adapter and to the parser        *)

FigureOps == {"discover_figures", "search_by_name", "refine_search"}

GenerationOps ==
    FigureOps \cup {"analyze_figure", "verify_figure", "generate_style_guide",
                    "generate_example_batch"}

\* the responses the adapter may give to the prompt of an operation
GenerationBlocks(o) ==
    CASE o \in FigureOps -> {b \in BlockSeqs : Len(b) = 1}
      [] o = "analyze_figure" ->
             {d \in AnalysisBlocks : d.present = DOMAIN Sections}
      [] o = "verify_figure" ->
             {d \in VerifyBlocks : d.marker = "bold" /\ d.place = "first"}
      [] o = "generate_style_guide" ->
             {d \in StyleBlocks :
                 /\ d.tone \in {<<"w", "i", "t", "t", "y">>, <<"g", "r", "u", "m", "p", "y">>}
                 /\ d.voice = <<"t", "h", "i", "r", "d", "_", "p", "e", "r", "s", "o", "n">>
                 /\ d.formality = <<"a", "c", "a", "d", "e", "m", "i", "c">>
                 /\ d.length = <<"l", "o", "n", "g">>}
      [] o = "generate_example_batch" -> {b \in ExampleBlockSeqs : Len(b) = 1}

GenerationForms(o) ==
    IF o = "generate_style_guide" THEN StyleLayouts ELSE Layouts

GenerationLayouts ==
    UNION {[operation : {o}, form : GenerationForms(o)] : o \in GenerationOps}

GeneratedText(o, d, form) ==
    CASE o = "discover_figures" -> Render("discovery", d, form)
      [] o = "search_by_name" -> Render("name_search", d, form)
      [] o = "refine_search" -> Render("refinement", d, form)
      [] o = "analyze_figure" -> RenderAnalysis(d, form)
      [] o = "verify_figure" -> RenderVerification(d, form)
      [] o = "generate_style_guide" -> RenderStyle(d, form)
      [] o = "generate_example_batch" -> RenderExamples(d, form)

\* the parser an operation hands the response to
ParserOf(o) ==
    CASE o = "discover_figures" -> "_parse_figure_discovery"
      [] o = "search_by_name" -> "_parse_figure_name_search"
      [] o = "refine_search" -> "_parse_figure_refinement"
      [] o = "analyze_figure" -> "_parse_figure_analysis"
      [] o = "verify_figure" -> "_parse_figure_verification"
      [] o = "generate_style_guide" -> "_parse_style_guide"
      [] o = "generate_example_batch" -> "_parse_generated_examples"

\* what the handler of an operation prints
ErrorMessage(o) ==
    CASE o = "discover_figures" -> "Error discovering figures"
      [] o = "search_by_name" -> "Error searching by name"
      [] o = "refine_search" -> "Error refining search"
      [] o = "analyze_figure" -> "Error analyzing figure"
      [] o = "verify_figure" -> "Error verifying figure"
      [] o = "generate_style_guide" -> "Error generating style guide"
      [] o = "generate_example_batch" -> "Error generating example batch"

\* what adapter.generate_text may raise
GenerationErrors == {"Exception", "APIError", "TimeoutError"}

\* a handler that catches the API's own error only
CaughtApiErrorOnly(exc) == exc = "APIError"

\* "except Exception as e:" catches every error the adapter raises
CaughtException(exc) == exc \in GenerationErrors

\* the operation is entered; the prompt is built
enter_operation ==
    /\ op = "idle"
    /\ op' = layout.operation
    /\ pc' = "try"
    /\ UNCHANGED <<inputVars, response, outcome, figures, examples, console,
                   verification, analysis, calls, asked, retval>>

\* response = self.adapter.generate_text(...) returns a text
generate_text_returns ==
    /\ pc = "try"
    /\ calls' = Append(calls, "generate_text")
    /\ response' = Some(GeneratedText(op, blocks, layout.form))
    /\ pc' = "parse"
    /\ UNCHANGED <<op, inputVars, outcome, figures, examples, console,
                   verification, analysis, asked, retval>>

\* self.adapter.generate_text(...) raises
generate_text_raises ==
    /\ pc = "try"
    /\ calls' = Append(calls, "generate_text")
    /\ \E exc \in GenerationErrors :
          IF CaughtException(exc)
          THEN pc' = "except" /\ UNCHANGED outcome
          ELSE pc' = "done" /\ outcome' = exc
    /\ UNCHANGED <<op, inputVars, response, figures, examples, console,
                   verification, analysis, asked, retval>>

\* "return self._parse_figure_discovery(response)", and the like in
\* search_by_name and refine_search
return_parsed_figures ==
    /\ pc = "parse"
    /\ op \in FigureOps
    /\ pc' = "done"
    /\ calls' = Append(calls, ParserOf(op))
    /\ outcome' = "returned"
    /\ figures' =
         CASE op = "discover_figures" -> parse_figure_discovery(response[1])
           [] op = "search_by_name" -> parse_figure_name_search(response[1])
           [] op = "refine_search" -> parse_figure_refinement(response[1])
    /\ UNCHANGED <<op, inputVars, response, examples, console, verification,
                   analysis, asked, retval>>

\* "return self._parse_figure_analysis(figure_name, response)"
return_parsed_analysis ==
    /\ pc = "parse"
    /\ op = "analyze_figure"
    /\ pc' = "done"
    /\ calls' = Append(calls, ParserOf(op))
    /\ outcome' = "returned"
    /\ analysis' = Some(parse_figure_analysis(Name(1), response[1]))
    /\ UNCHANGED <<op, inputVars, response, figures, examples, console,
                   verification, asked, retval>>

\* "return self._parse_figure_verification(figure_name, response)"
return_parsed_verification ==
    /\ pc = "parse"
    /\ op = "verify_figure"
    /\ pc' = "done"
    /\ calls' = Append(calls, ParserOf(op))
    /\ outcome' = "returned"
    /\ verification' = Some(parse_figure_verification(Name(1), response[1]))
    /\ UNCHANGED <<op, inputVars, response, figures, examples, console,
                   analysis, asked, retval>>

\* "return self._parse_style_guide(response, figure_analysis.figure_name)"
return_parsed_style_guide ==
    /\ pc = "parse"
    /\ op = "generate_style_guide"
    /\ pc' = "done"
    /\ calls' = Append(calls, ParserOf(op))
    /\ outcome' = "returned"
    /\ retval' = parse_style_guide(response[1])
    /\ UNCHANGED <<op, inputVars, response, figures, examples, console,
                   verification, analysis, asked>>

\* "return self._parse_generated_examples(response)"
return_parsed_examples ==
    /\ pc = "parse"
    /\ op = "generate_example_batch"
    /\ pc' = "done"
    /\ calls' = Append(calls, ParserOf(op))
    /\ LET returned(r) ==
               /\ outcome' = r.outcome
               /\ examples' = r.examples
               /\ console' = console \cup r.notices
       IN  returned(parse_generated_examples_call(response))
    /\ UNCHANGED <<op, inputVars, response, figures, verification, analysis,
                   asked, retval>>

\* "except Exception as e: console.print(...); return []" (return None in
\* analyze_figure, verify_figure and generate_style_guide)
handle_exception ==
    /\ pc = "except"
    /\ pc' = "done"
    /\ outcome' = "api_error"
    /\ console' = console \cup {ErrorMessage(op)}
    /\ figures' = IF op \in FigureOps THEN <<>> ELSE figures
    /\ examples' = IF op = "generate_example_batch" THEN <<>> ELSE examples
    /\ analysis' = IF op = "analyze_figure" THEN None ELSE analysis
    /\ verification' = IF op = "verify_figure" THEN None ELSE verification
    /\ retval' = IF op = "generate_style_guide" THEN None ELSE retval
    /\ UNCHANGED <<op, inputVars, response, calls, asked>>

InitGeneration ==
    /\ Idle
    /\ layout \in GenerationLayouts
    /\ blocks \in GenerationBlocks(layout.operation)

NextGeneration ==
    \/ enter_operation
    \/ generate_text_returns
    \/ generate_text_raises
    \/ return_parsed_figures
    \/ return_parsed_analysis
    \/ return_parsed_verification
    \/ return_parsed_style_guide
    \/ return_parsed_examples
    \/ handle_exception

SpecGeneration == InitGeneration /\ [][NextGeneration]_vars

-----------------------------------------------------------------------------
(* Properties of the generation step                                       *)

\* the operation has ended and no text came back from the adapter
GenerationRaised == op \in GenerationOps /\ pc = "done" /\ response = None

\* the calls of kind made so far
CallsOf(kind) == Cardinality({i \in DOMAIN calls : calls[i] = kind})

\* C18: when adapter.generate_text raises, the operation ends by returning
\* its empty result ([] from discover_figures, search_by_name, refine_search
\* and _generate_example_batch, None from analyze_figure, verify_figure and
\* generate_style_guide) after printing the error; no parser was called,
\* and the adapter was called once. No operation calls the adapter twice.
C18_GenerationErrorGivesEmptyResult ==
    /\ CallsOf("generate_text") <= 1
    /\ GenerationRaised =>
          /\ outcome = "api_error"
          /\ calls = <<"generate_text">>
          /\ console = {ErrorMessage(op)}
          /\ figures = <<>>
          /\ examples = <<>>
          /\ analysis = None
          /\ verification = None
          /\ retval = None

\* _generate_example_batch has ended after the adapter raised
C18_Witness ==
    /\ GenerationRaised
    /\ op = "generate_example_batch"
    /\ outcome = "api_error"
    /\ Len(blocks) = 1

-----------------------------------------------------------------------------
(* Two-section texts for _extract_section: the heading "TONE ANALYSIS",    *)
(* its body, and a second heading with a body of its own. The first body   *)
(* may be missing or blank, the second heading may be bold upper-case      *)
(* ("**VOICE AND PERSPECTIVE:**"), bold mixed-case ("**Note:**"), plain    *)
(* ("VOICE AND PERSPECTIVE:") or absent, every line may be indented as in  *)
(* the text of test_extract_section_success, and a blank line may stand    *)
(* before the second heading.                                              *)

SectionTexts ==
    [body : {"filled", "empty", "blank"},
     next : {"upper", "mixed", "plain", "none"},
     indent : BOOLEAN, gap : BOOLEAN, marker : {"bold", "plain"}]

SectionIndent(d) == IF d.indent THEN <<" ", " ">> ELSE <<>>

\* the heading line of the section that is asked for
OwnHeading(d) ==
    IF d.marker = "bold" THEN <<"*", "*", "TONE ANALYSIS", ":", "*", "*">>
    ELSE <<"TONE ANALYSIS", ":">>

OwnBody(d) ==
    CASE d.body = "filled" -> SectionIndent(d) \o SectionBody(1) \o <<"\n">>
      [] d.body = "blank" -> <<" ", " ", "\n">>
      [] d.body = "empty" -> <<>>

NextHeading(d) ==
    CASE d.next = "upper" -> <<"*", "*", "VOICE AND PERSPECTIVE", ":", "*", "*">>
      [] d.next = "mixed" -> <<"*", "*", "Note", ":", "*", "*">>
      [] d.next = "plain" -> <<"VOICE AND PERSPECTIVE", ":">>
      [] d.next = "none" -> <<>>

\* the second section: heading and body
NextSection(d) ==
    IF d.next = "none" THEN <<>>
    ELSE SectionIndent(d) \o NextHeading(d) \o <<"\n">>
           \o SectionIndent(d) \o SectionBody(2) \o <<"\n">>

SectionText(d) ==
    SectionIndent(d) \o OwnHeading(d) \o <<"\n">> \o OwnBody(d)
      \o (IF d.gap THEN <<"\n">> ELSE <<>>) \o NextSection(d)

\* self.researcher._extract_section(text, ["**TONE ANALYSIS:**",
\* "TONE ANALYSIS:"]), as _parse_figure_analysis calls it
call_extract_section ==
    /\ op = "idle"
    /\ op' = "extract_section"
    /\ response' = Some(SectionText(blocks))
    /\ retval' = Some(extract_section(SectionText(blocks),
                                      BoldAndPlain("TONE ANALYSIS")))
    /\ outcome' = "returned"
    /\ UNCHANGED <<inputVars, figures, examples, console, verification,
                   analysis, pc, calls, asked>>

InitSections ==
    /\ Idle
    /\ blocks \in SectionTexts
    /\ layout = "sections"

NextSections == call_extract_section

SpecSections == InitSections /\ [][NextSections]_vars

-----------------------------------------------------------------------------
(* Properties of the section extractor on two-section texts                *)

\* the text between the own heading and the end of the whole text, trimmed
RestOfText(d) ==
    strip(OwnBody(d) \o (IF d.gap THEN <<"\n">> ELSE <<>>) \o NextSection(d))

\* C19: the text _extract_section returns ends at the first following line
\* that is a bold upper-case heading, indented or not, and at the end of the
\* text when there is none: under a following "**VOICE AND PERSPECTIVE:**"
\* the returned text is the section's own body (empty when the body is
\* missing or blank) and holds neither the later heading nor the later body;
\* under a following bold mixed-case heading, a plain heading or no heading
\* it is everything up to the end of the text.
C19_SectionEndsAtNextUpperHeading ==
    op = "extract_section" =>
        /\ blocks.next = "upper" =>
              /\ retval[1] = strip(OwnBody(blocks))
              /\ ~Contains(retval[1], <<"VOICE AND PERSPECTIVE">>)
              /\ ~Contains(retval[1], SectionBody(2))
        /\ blocks.next # "upper" => retval[1] = RestOfText(blocks)

-----------------------------------------------------------------------------
(* Properties of the field extractor                                       *)

\* every field line of the response starts with "-" or "*"
FieldLinesMarked(d) == d.bullets \/ d.marker = "bold"

\* C20: the value _extract_field returns is the trimmed text between the
\* first matching marker and the next line that begins with "*" or "-": in a
\* verification response whose field lines all begin with "-" or "*" the
\* reason is "good" and the concerns are "None", the values of their own
\* lines, and the status is the stated one, or absent (so that the default
\* "UNVERIFIED" is stored) when nothing follows the status marker on its
\* line; no field holds the label or the value of a following field.
C20_FieldHoldsOwnValueOnly ==
    (Verified /\ FieldLinesMarked(blocks)) =>
        /\ verification[1].reason = <<"good">>
        /\ verification[1].concerns = <<"None">>
        /\ blocks.marker # "none" =>
              /\ verification[1].status =
                    IF blocks.value = "empty" THEN <<"UNVERIFIED">>
                    ELSE StatedStatus(blocks.value)
              /\ ~Occurs("REASON", verification[1].status)
              /\ ~Occurs("GOOD", verification[1].status)

-----------------------------------------------------------------------------
(* _validate_choice as _parse_style_guide calls it: profile_generator.py,  *)
(* lines 165-168. blocks is the value, layout the field it was read for.   *)

ChoiceFields == {"tone", "voice", "formality", "length_preference"}

\* the valid_choices and the default of each call
ChoicesOf(field) ==
    CASE field = "tone" -> ToneChoices
      [] field = "voice" -> VoiceChoices
      [] field = "formality" -> FormalityChoices
      [] field = "length_preference" -> LengthChoices

DefaultOf(field) ==
    CASE field = "tone" -> ToneChoices[2]
      [] field = "voice" -> VoiceChoices[1]
      [] field = "formality" -> FormalityChoices[3]
      [] field = "length_preference" -> LengthChoices[2]

\* the values the calls are given
ChoiceValues ==
    { <<"c", "a", "s", "u", "a", "l">>,
      <<"v", "e", "r", "y", " ", "c", "a", "s", "u", "a", "l">>,
      <<"v", "e", "r", "y", "_", "c", "a", "s", "u", "a", "l">>,
      <<"F", "o", "r", "m", "a", "l">>,
      <<"i", "n", "f", "o", "r", "m", "a", "l">>,
      <<"f", "o", "r", "m", "a", "l", "l", "y">>,
      <<"m", "o", "d", "e", "r", "a", "t", "e">>,
      <<"s", "t", "i", "f", "f">>,
      <<>>,
      <<"a">>,
      <<"A", "c", "a", "d", "e", "m", "i", "c">>,
      <<"f", "i", "r", "s", "t">>,
      <<"p", "e", "r", "s", "o", "n">>,
      <<"T", "h", "i", "r", "d", "_", "p", "e", "r", "s", "o", "n">>,
      <<"s", "h", "o", "r", "t">>,
      <<"m", "e", "d">>,
      <<"W", "i", "t", "t", "y">>,
      <<"l", "o", "n", "g">> }

\* the value equals the choice, ignoring case
SameChoice(value, choice) == lower(value) = lower(choice)

\* the value contains the choice or is contained in it, ignoring case
AlikeChoice(value, choice) ==
    \/ IsInfix(lower(value), lower(choice))
    \/ IsInfix(lower(choice), lower(value))

\* neither loop returned: console.print(f"Invalid value '{value}', using
\* default '{default}'")
choice_warned(value, valid_choices) ==
    \A i \in DOMAIN valid_choices : ~AlikeChoice(value, valid_choices[i])

\* self._validate_choice(value, valid_choices, default)
call_validate_choice ==
    /\ op = "idle"
    /\ op' = "validate_choice"
    /\ retval' = Some(validate_choice(blocks, ChoicesOf(layout), DefaultOf(layout)))
    /\ console' = IF choice_warned(blocks, ChoicesOf(layout))
                  THEN console \cup {"Invalid value"} ELSE console
    /\ outcome' = "returned"
    /\ UNCHANGED <<inputVars, response, figures, examples, verification,
                   analysis, pc, calls, asked>>

\* the result of the call is validated once more
call_validate_choice_again ==
    /\ op = "validate_choice"
    /\ op' = "validate_choice_again"
    /\ retval' = Some(validate_choice(retval[1], ChoicesOf(layout),
                                      DefaultOf(layout)))
    /\ console' = IF choice_warned(retval[1], ChoicesOf(layout))
                  THEN console \cup {"Invalid value"} ELSE console
    /\ UNCHANGED <<inputVars, response, outcome, figures, examples,
                   verification, analysis, pc, calls, asked>>

InitChoice ==
    /\ Idle
    /\ blocks \in ChoiceValues
    /\ layout \in ChoiceFields

NextChoice ==
    \/ call_validate_choice
    \/ call_validate_choice_again

SpecChoice == InitChoice /\ [][NextChoice]_vars

-----------------------------------------------------------------------------
(* Properties of _validate_choice                                          *)

\* the result of the first call is what the claim says it is
ChoiceAsClaimed ==
    op = "validate_choice" =>
        LET choices == ChoicesOf(layout)
            r == retval[1]
            at(c) == Min({i \in DOMAIN choices : choices[i] = c})
        IN  /\ r \in Range(choices) \cup {DefaultOf(layout)}
            /\ (\E i \in DOMAIN choices : SameChoice(blocks, choices[i]))
                  => r \in Range(choices) /\ SameChoice(blocks, r)
            /\ (/\ \A i \in DOMAIN choices : ~SameChoice(blocks, choices[i])
                /\ \E i \in DOMAIN choices : AlikeChoice(blocks, choices[i]))
                  => /\ r \in Range(choices)
                     /\ AlikeChoice(blocks, r)
                     /\ \A j \in 1..(at(r) - 1) : ~AlikeChoice(blocks, choices[j])
            /\ (\A i \in DOMAIN choices : ~AlikeChoice(blocks, choices[i]))
                  => r = DefaultOf(layout) /\ console = {"Invalid value"}

\* C21: _validate_choice returns the choice equal to the value ignoring case
\* when there is one, even if an earlier choice contains the value;
\* otherwise the first choice in list order that contains the value or is
\* contained in it; otherwise the default. The result is one of the choices
\* or the default, and validating the result again returns it unchanged.
C21_ExactThenPartialThenDefault ==
    /\ []ChoiceAsClaimed
    /\ [][op' = "validate_choice_again" => retval' = retval]_vars

\* "casual" was validated for the formality, whose first choice
\* "very_casual" contains it: the result is "casual", also when it is
\* validated again
C21_Witness ==
    /\ op = "validate_choice_again"
    /\ layout = "formality"
    /\ blocks = FormalityChoices[2]
    /\ retval = Some(FormalityChoices[2])

-----------------------------------------------------------------------------
(* Line-oriented responses for the example parsers: blocks is the sequence *)
(* of the kinds of its lines, layout tells whether the lines are indented  *)

MaxLines == 4

LineKinds ==
    {"prompt", "short_prompt", "empty_prompt", "response", "empty_response",
     "text", "blank", "bold_heading", "plain_heading"}

LineSeqs == UNION {[1..n -> LineKinds] : n \in 0..MaxLines}

LineLayouts == [indent : BOOLEAN]

LineTag(k) == <<"l1", "l2", "l3", "l4", "l5", "l6">>[k]

LinePrompt(k) == <<"Write", " ", LineTag(k)>>

LineResponse(k) == <<"Story", " ", LineTag(k)>>

LineMore(k) == <<"More", " ", LineTag(k)>>

LineBoldHeading(k) == <<"*", "*", "EXAMPLE", " ", "7", ":", "*", "*">>

\* the k-th line, of the given kind
LineText(kind, k) ==
    CASE kind = "prompt" -> <<"User prompt", ":", " ">> \o LinePrompt(k)
      [] kind = "short_prompt" -> <<"Prompt", ":", " ">> \o LinePrompt(k)
      [] kind = "empty_prompt" -> <<"User prompt", ":", " ">>
      [] kind = "response" -> <<"Assistant response", ":", " ">> \o LineResponse(k)
      [] kind = "empty_response" -> <<"Response", ":">>
      [] kind = "text" -> LineMore(k)
      [] kind = "blank" -> <<>>
      [] kind = "bold_heading" -> LineBoldHeading(k)
      [] kind = "plain_heading" -> <<"EXAMPLE", " ", "7", ":">>

\* the lines joined by "\n", each indented when the layout says so
RECURSIVE RenderLines(_, _, _)
RenderLines(ls, lay, k) ==
    IF k > Len(ls) THEN <<>>
    ELSE Indent(lay) \o LineText(ls[k], k)
           \o (IF k < Len(ls) THEN <<"\n">> ELSE <<>>)
           \o RenderLines(ls, lay, k + 1)

\* self.generator._fallback_parse_examples(response)
call_fallback_parse_examples ==
    /\ op = "idle"
    /\ op' = "fallback_parse_examples"
    /\ response' = Some(RenderLines(blocks, layout, 1))
    /\ examples' = fallback_parse_examples(RenderLines(blocks, layout, 1))
    /\ outcome' = "returned"
    /\ UNCHANGED <<inputVars, retval, figures, console, verification, analysis,
                   flowVars>>

\* self.generator._parse_generated_examples(response)
call_parse_generated_examples ==
    /\ op = "idle"
    /\ op' = "parse_generated_examples"
    /\ Parsed(Some(RenderLines(blocks, layout, 1)))
    /\ UNCHANGED <<inputVars, retval, figures, verification, analysis, flowVars>>

InitLines ==
    /\ Idle
    /\ blocks \in LineSeqs
    /\ layout \in LineLayouts

NextLines ==
    \/ call_fallback_parse_examples
    \/ call_parse_generated_examples

SpecLines == InitLines /\ [][NextLines]_vars

-----------------------------------------------------------------------------
(* Properties of the fallback line scanner                                 *)

PromptKinds == {"prompt", "short_prompt", "empty_prompt"}

MarkerKinds == {"response", "empty_response"}

Scanned == op = "fallback_parse_examples"

\* the index of the prompt line after line i, or of the end of the input
NextPrompt(ls, i) ==
    Min({j \in (i + 1)..Len(ls) : ls[j] \in PromptKinds} \cup {Len(ls) + 1})

\* the response-marker lines between prompt line i and the next prompt line
MarkersAfter(ls, i) ==
    {j \in (i + 1)..(NextPrompt(ls, i) - 1) : ls[j] \in MarkerKinds}

\* what line j adds to the response that is being accumulated
RECURSIVE AccumulatedFrom(_, _, _)
AccumulatedFrom(ls, j, end) ==
    IF j >= end THEN <<>>
    ELSE (CASE ls[j] = "response" -> <<LineResponse(j)>>
            [] ls[j] = "empty_response" -> << <<>> >>
            [] ls[j] = "text" -> <<LineMore(j)>>
            [] ls[j] = "bold_heading" -> <<LineBoldHeading(j)>>
            [] OTHER -> <<>>)
           \o AccumulatedFrom(ls, j + 1, end)

\* the response lines accumulated for prompt line i when the next prompt
\* line or the end of the input is reached: a response marker starts the
\* accumulation anew
Accumulated(ls, i) ==
    AccumulatedFrom(ls,
                    IF MarkersAfter(ls, i) = {} THEN i + 1
                    ELSE Max(MarkersAfter(ls, i)),
                    NextPrompt(ls, i))

\* the prompt lines that yield an example
Yielding(ls) ==
    {i \in 1..Len(ls) :
        /\ ls[i] \in PromptKinds \ {"empty_prompt"}
        /\ strip(join_lines(Accumulated(ls, i))) # <<>>}

\* the elements of the set of numbers S in increasing order
RECURSIVE Ascending(_)
Ascending(S) ==
    IF S = {} THEN <<>> ELSE <<Min(S)>> \o Ascending(S \ {Min(S)})

\* C22: the fallback line scanner emits, in input order, exactly one
\* example for each prompt line with non-empty prompt text for which a
\* non-empty response was accumulated before the next prompt line or the
\* end of the input; its user content is the text after the prompt line's
\* first colon and its assistant content the accumulated response lines
\* joined by newlines.
C22_OneExamplePerAnsweredPrompt ==
    Scanned =>
        LET order == Ascending(Yielding(blocks))
        IN  /\ Len(examples) = Len(order)
            /\ \A n \in 1..Len(order) :
                  examples[n] =
                      TrainingExample(LinePrompt(order[n]),
                                      join_lines(Accumulated(blocks, order[n])))

\* "Prompt:", response, text, "User prompt:" were scanned: one example
\* with two response lines, flushed by the second prompt line, and none for
\* the second prompt
C22_Witness ==
    /\ Scanned
    /\ blocks = <<"short_prompt", "response", "text", "prompt">>
    /\ Len(examples) = 1
    /\ examples[1].messages[3].content =
          LineResponse(2) \o <<"\n">> \o LineMore(3)

\* C27: the fallback line scanner emits an example for a prompt only if a
\* response-marker line ("Assistant response:" or "Response:") stands
\* between that prompt line and the next prompt line or the end of the
\* input; the lines after a prompt line with no response marker never become
\* an example's assistant content.
C27_ExampleOnlyAfterResponseMarker ==
    Scanned =>
        \A n \in 1..Len(examples) :
            \E i \in 1..Len(blocks) :
                /\ blocks[i] \in PromptKinds
                /\ examples[n].messages[2].content = LinePrompt(i)
                /\ MarkersAfter(blocks, i) # {}

-----------------------------------------------------------------------------
(* Properties of both example strategies on line-oriented responses        *)

ExamplesReturned ==
    op \in {"fallback_parse_examples", "parse_generated_examples"}
      /\ outcome = "returned"

\* the contents of the user and assistant messages of the returned examples
ExampleContents ==
    {examples[n].messages[m].content : n \in 1..Len(examples), m \in {2, 3}}

\* the lines before the first prompt line
LinesBeforePrompt(ls) == 1..(NextPrompt(ls, 0) - 1)

\* C23: text outside the recognised structure is ignored by both strategies:
\* no message content of a returned example holds an EXAMPLE heading line,
\* bold or plain, or a line that precedes the first prompt line of the
\* response.
C23_TextOutsideStructureIgnored ==
    ExamplesReturned =>
        \A c \in ExampleContents :
            /\ ~Occurs("EXAMPLE", c)
            /\ \A j \in LinesBeforePrompt(blocks) :
                  blocks[j] = "text" => ~Contains(c, LineMore(j))

\* C24: every example either strategy returns has exactly three messages
\* with the roles system, user, assistant in that order, the system content
\* "You are a helpful writing assistant." and user and assistant contents
\* that are not empty after trimming; the TrainingExample validator accepts
\* its messages.
C24_ReturnedExamplesAreValid ==
    ExamplesReturned =>
        \A n \in 1..Len(examples) :
            LET ms == examples[n].messages
            IN  /\ Len(ms) = 3
                /\ <<ms[1].role, ms[2].role, ms[3].role>> =
                      <<"system", "user", "assistant">>
                /\ ms[1].content = <<"You are a helpful writing assistant.">>
                /\ strip(ms[2].content) # <<>>
                /\ strip(ms[3].content) # <<>>
                /\ validate_messages(ms) = None

\* a heading, a prompt, a response and a further line, not indented, were
\* parsed: the primary strategy returned one example and no fallback ran
C24_Witness ==
    /\ ExamplesReturned
    /\ op = "parse_generated_examples"
    /\ blocks = <<"bold_heading", "prompt", "response", "text">>
    /\ ~layout.indent
    /\ "Trying fallback parsing method" \notin console
    /\ Len(examples) = 1
    /\ examples[1].messages[2].content = LinePrompt(2)

-----------------------------------------------------------------------------
(* HistoricalDatasetGenerator.generate_initial_dataset and                 *)
(* add_examples_to_dataset: the confirmation, the batches, the review of   *)
(* each batch and the value returned.  blocks tells the operation, the     *)
(* count asked for and how many examples the dataset passed to             *)
(* add_examples_to_dataset holds; examples is dataset.examples.            *)

MaxCount == 21

batch_size == 10

MaxStored == 1

DatasetOps == {"generate_initial_dataset", "add_examples_to_dataset"}

DatasetBlocks ==
    [operation : {"generate_initial_dataset"}, count : 0..MaxCount, stored : {0}]
      \cup [operation : {"add_examples_to_dataset"}, count : 0..MaxCount,
            stored : 0..MaxStored]

\* the examples of a dataset loaded from the store
StoredExamples(n) == [i \in 1..n |-> TrainingExample(<<"Stored">>, <<"Kept">>)]

\* only the batches of batch_size examples
batches_whole(count) == [b \in 1..(count \div batch_size) |-> <<(b - 1) * batch_size, batch_size>>]

\* "[(i, min(batch_size, count - i)) for i in range(0, count, batch_size)]"
RECURSIVE batches_from(_, _)
batches_from(i, count) ==
    IF i >= count THEN <<>>
    ELSE <<<<i, Min({batch_size, count - i})>>>> \o batches_from(i + batch_size, count)

batches(count) == batches_from(0, count)

\* what the text-generation step may answer to the prompt of a batch, as
\* kinds of lines: nothing, one example, two examples, no example
BatchTexts ==
    {<<>>, <<"prompt", "response">>, <<"prompt", "response", "prompt", "response">>,
     <<"text">>}

\* _generate_example_batch: the examples parsed from the response, [] when
\* generate_text or the parser raises
generate_example_batch_result(r) ==
    IF r.outcome = "returned" THEN r.examples ELSE <<>>

\* next((msg["content"] for msg in example.messages if msg["role"] == role), "")
message_content(example, role) ==
    LET found == {i \in DOMAIN example.messages : example.messages[i].role = role}
    IN  IF found = {} THEN <<>> ELSE example.messages[Min(found)].content

\* what the user may type at "Enter new response": Enter keeps
\* default=assistant_msg, a new text, a blank text
NewResponses(assistant_msg) == {assistant_msg, <<"Rewritten">>, <<" ">>}

ReviewActions == {"accept", "edit", "skip"}

\* the answers to the questions about one example
ExampleAnswers(example) ==
    [action : {"accept", "skip"}, new_response : {<<>>}]
      \cup [action : {"edit"},
            new_response : NewResponses(message_content(example, "assistant"))]

\* the answers to the questions of one review
ReviewAnswers(exs) ==
    {a \in [all : BOOLEAN, each : [1..Len(exs) -> UNION {ExampleAnswers(exs[i]) : i \in 1..Len(exs)}]] :
        /\ \A i \in 1..Len(exs) : a.each[i] \in ExampleAnswers(exs[i])
        /\ a.all => Len(exs) > 1
        /\ a.all => \A i \in 1..Len(exs) : a.each[i].action = "accept"}

\* the body of the loop of _review_examples: <<example>>, <<edited_example>>
\* or <<>>
reviewed(example, a) ==
    CASE a.action = "accept" -> <<example>>
      [] a.action = "edit" ->
             IF strip(a.new_response) # <<>>
             THEN <<TrainingExample(message_content(example, "user"), a.new_response)>>
             ELSE <<>>
      [] OTHER -> <<>>

RECURSIVE review_loop(_, _, _)
review_loop(exs, a, i) ==
    IF i > Len(exs) THEN <<>>
    ELSE reviewed(exs[i], a.each[i]) \o review_loop(exs, a, i + 1)

\* _review_examples(examples, figure_name), the responses being shorter than
\* the 300 characters above which "Show full response?" is asked
review_examples(exs, a) ==
    IF exs = <<>> THEN <<>>
    ELSE IF Len(exs) > 1 /\ a.all THEN exs
    ELSE review_loop(exs, a, 1)

\* the questions _review_examples asks, with the answers
RECURSIVE review_questions(_, _, _)
review_questions(exs, a, i) ==
    IF i > Len(exs) THEN <<>>
    ELSE <<<<"What would you like to do with this example?", a.each[i].action>>>>
           \o (IF a.each[i].action = "edit"
               THEN <<<<"Enter new response", a.each[i].new_response>>>>
               ELSE <<>>)
           \o review_questions(exs, a, i + 1)

review_asked(exs, a) ==
    (IF Len(exs) > 1 THEN <<<<"accept all", IF a.all THEN "y" ELSE "n">>>> ELSE <<>>)
      \o (IF Len(exs) > 1 /\ a.all THEN <<>> ELSE review_questions(exs, a, 1))

\* the calls of _generate_example_batch made so far
GenerateCalls == SelectSeq(calls, LAMBDA c : c.method = "_generate_example_batch")

\* the calls of _review_examples made so far
ReviewCalls == SelectSeq(calls, LAMBDA c : c.method = "_review_examples")

ConfirmQuestion(o) ==
    IF o = "generate_initial_dataset" THEN "Continue with dataset generation?"
    ELSE "Continue with example generation?"

\* generate_initial_dataset(profile, figure_analysis, count) or
\* add_examples_to_dataset(dataset, profile, figure_analysis, count) is
\* called
call_dataset_operation ==
    /\ pc = "none"
    /\ op = "idle"
    /\ op' = blocks.operation
    /\ pc' = "confirm"
    /\ examples' = StoredExamples(blocks.stored)
    /\ UNCHANGED <<inputVars, response, outcome, figures, console, verification,
                   analysis, calls, asked, retval>>

\* "if not Confirm.ask(...): return None" (return 0 in
\* add_examples_to_dataset); "dataset = Dataset(author_id=profile.author_id)"
confirm_generation ==
    /\ pc = "confirm"
    /\ UNCHANGED <<op, inputVars, response, figures, examples, verification,
                   analysis, calls>>
    /\ \E answer \in AnswersNoDefault :
         /\ asked' = Append(asked, <<ConfirmQuestion(op), answer>>)
         /\ IF Confirm_ask(answer, FALSE)
            THEN /\ pc' = "batches"
                 /\ UNCHANGED <<outcome, console, retval>>
            ELSE /\ console' = console \cup
                       (IF op = "generate_initial_dataset"
                        THEN {"Dataset generation cancelled"} ELSE {})
                 /\ retval' = IF op = "generate_initial_dataset" THEN None ELSE Some(0)
                 /\ Ends("returned")

\* one turn of "for batch_start, batch_count in batches": the batch is
\* generated and, when it holds examples, reviewed and the approved examples
\* added to the dataset
generate_batch ==
    /\ pc = "batches"
    /\ Len(GenerateCalls) < Len(batches(blocks.count))
    /\ UNCHANGED <<op, inputVars, outcome, figures, verification, analysis, pc,
                   retval>>
    /\ LET batch_count == batches(blocks.count)[Len(GenerateCalls) + 1][2]
           generated(batch_examples, notices) ==
               \E a \in ReviewAnswers(batch_examples) :
                  /\ examples' = examples \o review_examples(batch_examples, a)
                  /\ asked' = asked \o review_asked(batch_examples, a)
                  /\ calls' = calls \o
                        <<[method |-> "_generate_example_batch",
                           count |-> batch_count, result |-> batch_examples]>>
                        \o (IF batch_examples # <<>>
                            THEN <<[method |-> "_review_examples",
                                    result |-> review_examples(batch_examples, a)]>>
                            ELSE <<>>)
                  /\ console' = console \cup notices \cup
                        (IF batch_examples = <<>> /\ op = "generate_initial_dataset"
                         THEN {"Failed to generate batch, continuing with next..."}
                         ELSE {})
           parsed(r) ==
               generated(generate_example_batch_result(r),
                         r.notices \cup (IF r.outcome = "returned" THEN {}
                                         ELSE {"Error generating example batch"}))
       IN  \/ \E ls \in BatchTexts :
                /\ response' = Some(RenderLines(ls, [indent |-> FALSE], 1))
                /\ parsed(parse_generated_examples_call(
                             Some(RenderLines(ls, [indent |-> FALSE], 1))))
           \/ /\ UNCHANGED response
              /\ generated(<<>>, {"Error generating example batch"})

\* after the loop: "if total_generated == 0: return None", "return dataset"
\* ("return added_count" in add_examples_to_dataset)
return_dataset ==
    /\ pc = "batches"
    /\ Len(GenerateCalls) = Len(batches(blocks.count))
    /\ UNCHANGED <<op, inputVars, response, figures, examples, verification,
                   analysis, calls, asked>>
    /\ IF op = "generate_initial_dataset"
       THEN IF Len(examples) = 0
            THEN /\ console' = console \cup {"No examples were generated successfully"}
                 /\ retval' = None
            ELSE /\ retval' = Some([examples |-> examples])
                 /\ UNCHANGED console
       ELSE /\ retval' = Some(Len(examples) - blocks.stored)
            /\ UNCHANGED console
    /\ Ends("returned")

InitDataset ==
    /\ Idle
    /\ blocks \in DatasetBlocks
    /\ layout = "dataset"

NextDataset ==
    \/ call_dataset_operation
    \/ confirm_generation
    \/ generate_batch
    \/ return_dataset

SpecDataset == InitDataset /\ [][NextDataset]_vars

-----------------------------------------------------------------------------
(* Properties of the dataset operations                                    *)

RECURSIVE SumOf(_)
SumOf(s) == IF s = <<>> THEN 0 ELSE Head(s) + SumOf(Tail(s))

RECURSIVE Concatenated(_)
Concatenated(ss) == IF ss = <<>> THEN <<>> ELSE Head(ss) \o Concatenated(Tail(ss))

\* the least number of batches of at most batch_size that hold count
CeilingOfTenth(count) == (count + batch_size - 1) \div batch_size

BatchCounts == [i \in 1..Len(GenerateCalls) |-> GenerateCalls[i].count]

Approved == Concatenated([i \in 1..Len(ReviewCalls) |-> ReviewCalls[i].result])

Declined == \E i \in 1..Len(asked) : asked[i] = <<ConfirmQuestion(op), "n">>

\* the batches that held examples, which are the ones reviewed
ReviewedBatches == SelectSeq(GenerateCalls, LAMBDA c : c.result # <<>>)

InitialDatasetDone == op = "generate_initial_dataset" /\ pc = "done"

\* C25: generate_initial_dataset(count) asks for batches of 1 to 10
\* examples, ceil(count/10) of them summing to count once it has returned
\* after a confirmation, whatever each batch yields; it returns None exactly
\* when the user declined or nothing was approved, and otherwise a dataset
\* that holds the approved examples in the order of approval
C25_BatchesAndReturnedDataset ==
    op = "generate_initial_dataset" =>
       /\ \A i \in 1..Len(BatchCounts) : BatchCounts[i] \in 1..batch_size
       /\ Len(BatchCounts) <= CeilingOfTenth(blocks.count)
       /\ pc = "done" =>
             /\ ~Declined =>
                   /\ Len(BatchCounts) = CeilingOfTenth(blocks.count)
                   /\ SumOf(BatchCounts) = blocks.count
             /\ Declined => BatchCounts = <<>>
             /\ retval = None <=> (Declined \/ Len(Approved) = 0)
             /\ retval # None => retval = Some([examples |-> Approved])

\* a call for 21 examples has returned a dataset: the first batch yielded
\* nothing, a later review approved an edited example and another one
C25_Witness ==
    /\ InitialDatasetDone
    /\ blocks.count = 2 * batch_size + 1
    /\ BatchCounts = <<batch_size, batch_size, 1>>
    /\ GenerateCalls[1].result = <<>>
    /\ retval # None
    /\ Len(retval[1].examples) >= 2
    /\ \E i \in 1..Len(asked) : asked[i] = <<"Enter new response", <<"Rewritten">>>>

\* C29: the examples added to the dataset are never more than count, and
\* the examples taken from a batch never more than the batch asked for
C29_NeverMoreThanCount ==
    op \in DatasetOps =>
       /\ Len(examples) - blocks.stored <= blocks.count
       /\ Len(ReviewCalls) = Len(ReviewedBatches)
       /\ \A i \in 1..Len(ReviewCalls) :
             Len(ReviewCalls[i].result) <= ReviewedBatches[i].count

-----------------------------------------------------------------------------
(* The search-mode classifier and the number of words of the query         *)

\* the words of the query as it was put together
WordCount == Len(blocks) + Len(layout.tail)

\* C30: _detect_search_mode returns "name" only for queries of two, three
\* or four words; an empty query, a single word and a query of five words
\* or more are classified "description", capitalised or not
C30_NameOnlyForTwoToFourWords ==
    Classified =>
        /\ retval = Some("name") => WordCount \in 2..4
        /\ WordCount \notin 2..4 => retval = Some("description")

\* a bare capitalised surname, which is short and so holds one name signal,
\* was classified "description"
C30_Witness ==
    /\ Classified
    /\ blocks = << <<"T", "w", "a", "i", "n">> >>
    /\ layout.tail = <<>>
    /\ NameSignals = 1
    /\ DescriptionSignals = 0
    /\ retval = Some("description")

\* queries of four words are classified "name", queries of five and the
\* empty query "description"
FourWordName == Classified /\ WordCount = 4 /\ retval = Some("name")

FiveWordsWithNameSignals ==
    /\ Classified
    /\ WordCount = 5
    /\ NameSignals >= 2
    /\ DescriptionSignals = 1

EmptyQueryClassified == Classified /\ WordCount = 0 /\ layout.padded

-----------------------------------------------------------------------------
(* The search command: historical_author.py, search_historical_figures.    *)
(* blocks holds the query words, --mode and --refine; figures is the list  *)
(* the last researcher operation returned                                  *)

MaxCommandWords == 2

valid_modes == {"auto", "description", "name"}

\* the values --mode is given: the valid ones, a misspelt one, another case
ModeOptions == valid_modes \cup {"names", "Name"}

CommandQueries == UNION {[1..n -> QueryWords] : n \in 0..MaxCommandWords}

SearchBlocks == [query : CommandQueries, mode : ModeOptions, refine : BOOLEAN]

CommandQuery == Query(blocks.query, [tail |-> <<>>, padded |-> FALSE])

\* what a researcher operation may return: no figure, one figure
FoundFigures ==
    {<<>>, <<HistoricalFigure(<<"Mark Twain">>, <<"1835-1910">>, <<"Wry">>,
                              <<"Roughing It">>, <<"Humorist">>)>>}

\* a fallback that is offered whatever the name search returned
fallback_offered_always(found) == TRUE

\* "if not figures:" after search_by_name
fallback_offered(found) == found = <<>>

\* "if mode == "auto": ... search_mode = detected_mode else: search_mode = mode"
search_mode(mode, query) ==
    IF mode = "auto" THEN detect_search_mode(query) ELSE mode

\* "if figures: ... else: ..." at the end of the command
found_notice(found) ==
    IF found # <<>> THEN "Found figures matching your search"
    ELSE "No figures found matching your search"

\* the command starts: "if mode not in valid_modes: ... raise typer.Exit(1)"
search_historical_figures ==
    /\ pc = "none"
    /\ op = "idle"
    /\ op' = "search_historical_figures"
    /\ UNCHANGED <<inputVars, response, figures, examples, verification,
                   analysis, calls, asked, retval>>
    /\ IF blocks.mode \notin valid_modes
       THEN /\ console' = console \cup {"Invalid mode"}
            /\ Ends("Exit(1)")
       ELSE /\ pc' = "researcher"
            /\ UNCHANGED <<outcome, console>>

\* "researcher = HistoricalFigureResearcher()", which raises ValueError
\* without an API key; then the branch is chosen and, in auto mode, the
\* detected mode printed
create_researcher ==
    /\ pc = "researcher"
    /\ UNCHANGED <<op, inputVars, response, figures, examples, verification,
                   analysis, asked, retval>>
    /\ \/ /\ console' = console \cup {"ValueError"}
          /\ UNCHANGED calls
          /\ Ends("Exit(1)")
       \/ /\ calls' = Append(calls, "HistoricalFigureResearcher")
          /\ UNCHANGED outcome
          /\ IF blocks.refine
             THEN pc' = "refine" /\ UNCHANGED console
             ELSE /\ pc' = search_mode(blocks.mode, CommandQuery)
                  /\ console' = console \cup
                        (IF blocks.mode = "auto"
                         THEN {"Auto-detected search mode"} ELSE {})

\* --refine: the feedback is asked for and refine_search called
refine_step ==
    /\ pc = "refine"
    /\ UNCHANGED <<op, inputVars, response, examples, verification, analysis, retval>>
    /\ asked' = Append(asked, <<"What would you like to change about the previous results?", "more poets">>)
    /\ calls' = Append(calls, "refine_search")
    /\ \E found \in FoundFigures :
         /\ figures' = found
         /\ console' = console \cup {found_notice(found)}
    /\ Ends("returned")

\* name mode: search_by_name is called; without figures the fallback is
\* offered, with figures they are displayed
search_by_name_step ==
    /\ pc = "name"
    /\ UNCHANGED <<op, inputVars, response, examples, verification, analysis,
                   asked, retval>>
    /\ calls' = Append(calls, "search_by_name")
    /\ \E found \in FoundFigures :
         /\ figures' = found
         /\ IF fallback_offered(found)
            THEN /\ console' = console \cup {"No figures found with name"}
                 /\ pc' = "fallback"
                 /\ UNCHANGED outcome
            ELSE /\ console' = console \cup {found_notice(found)}
                 /\ Ends("returned")

\* "if Confirm.ask("Try searching by description instead?", default=True):
\* figures = researcher.discover_figures(query, count)"
confirm_fallback ==
    /\ pc = "fallback"
    /\ UNCHANGED <<op, inputVars, response, examples, verification, analysis, retval>>
    /\ \E answer \in AnswersWithDefault :
         /\ asked' = Append(asked, <<"Try searching by description instead?", answer>>)
         /\ IF Confirm_ask(answer, TRUE)
            THEN /\ calls' = Append(calls, "discover_figures")
                 /\ \E found \in FoundFigures :
                      /\ figures' = found
                      /\ console' = console \cup
                            {"Falling back to description search...", found_notice(found)}
            ELSE /\ console' = console \cup {found_notice(figures)}
                 /\ UNCHANGED <<calls, figures>>
    /\ Ends("returned")

\* description mode: discover_figures is called and its figures displayed
discover_figures_step ==
    /\ pc = "description"
    /\ UNCHANGED <<op, inputVars, response, examples, verification, analysis,
                   asked, retval>>
    /\ calls' = Append(calls, "discover_figures")
    /\ \E found \in FoundFigures :
         /\ figures' = found
         /\ console' = console \cup {found_notice(found)}
    /\ Ends("returned")

InitSearchCommand ==
    /\ Idle
    /\ blocks \in SearchBlocks
    /\ layout = "command"

NextSearchCommand ==
    \/ search_historical_figures
    \/ create_researcher
    \/ refine_step
    \/ search_by_name_step
    \/ confirm_fallback
    \/ discover_figures_step

SpecSearchCommand == InitSearchCommand /\ [][NextSearchCommand]_vars

-----------------------------------------------------------------------------
(* Properties of the search command                                        *)

\* the researcher operations called so far
ResearcherOperations == SelectSeq(calls, LAMBDA c : c # "HistoricalFigureResearcher")

\* the mode the command is in: the one given, or in auto mode the one
\* _detect_search_mode finds
ModeInForce ==
    IF blocks.mode = "auto" THEN detect_search_mode(CommandQuery) ELSE blocks.mode

FallbackConfirmed ==
    \E i \in 1..Len(asked) :
       /\ asked[i][1] = "Try searching by description instead?"
       /\ asked[i][2] \in {"y", ""}

SearchCallsAsClaimed ==
    (op = "search_historical_figures" /\ ~blocks.refine) =>
       /\ blocks.mode \notin valid_modes =>
             (outcome = "Exit(1)" /\ pc = "done" /\ calls = <<>>)
       /\ (blocks.mode \in valid_modes /\ ModeInForce = "name") =>
             /\ ResearcherOperations \in
                   {<<>>, <<"search_by_name">>, <<"search_by_name", "discover_figures">>}
             /\ Called("discover_figures") => FallbackConfirmed
             /\ (pc = "done" /\ outcome = "returned") => Called("search_by_name")
       /\ (blocks.mode \in valid_modes /\ ModeInForce # "name") =>
             /\ ResearcherOperations \in {<<>>, <<"discover_figures">>}
             /\ (pc = "done" /\ outcome = "returned") => Called("discover_figures")
       /\ \A i, j \in 1..Len(calls) : calls[i] = calls[j] => i = j

\* the fallback question is asked, and discover_figures called in name
\* mode, only in a state where search_by_name has just returned no figures
FallbackOnlyAfterEmptyNameSearch ==
    (/\ op = "search_historical_figures"
     /\ ~blocks.refine
     /\ ModeInForce = "name"
     /\ \/ asked' # asked
        \/ calls' = Append(calls, "discover_figures")) =>
        /\ calls # <<>>
        /\ calls[Len(calls)] = "search_by_name"
        /\ figures = <<>>

\* C26: without --refine an invalid --mode exits with code 1 before a
\* researcher is created; in name mode, given or detected, search_by_name
\* is called first and once, and discover_figures only when search_by_name
\* returned no figures and the user confirmed the fallback; in description
\* mode only discover_figures is called; no operation is called twice
C26_SearchCallsByMode ==
    /\ []SearchCallsAsClaimed
    /\ [][FallbackOnlyAfterEmptyNameSearch]_vars

\* a query detected as a name found nothing, the user pressed Enter at the
\* fallback question and the description search found a figure
C26_Witness ==
    /\ op = "search_historical_figures"
    /\ blocks.mode = "auto"
    /\ ~blocks.refine
    /\ ModeInForce = "name"
    /\ calls = <<"HistoricalFigureResearcher", "search_by_name", "discover_figures">>
    /\ asked = <<<<"Try searching by description instead?", "">>>>
    /\ figures # <<>>
    /\ outcome = "returned"

\* an invalid mode has ended the command
InvalidModeExited ==
    /\ op = "search_historical_figures"
    /\ blocks.mode \notin valid_modes
    /\ outcome = "Exit(1)"

-----------------------------------------------------------------------------
(* The create command after the profile was generated and confirmed        *)

ProfileConfirmed ==
    /\ op = "create_historical_author_interactive"
    /\ Called("generate_profile")

\* C28 as stated: in the create command, once verification passed, the user
\* confirmed, analysis and profile generation succeeded and the profile was
\* confirmed, generate_initial_dataset is called and the command does not
\* exit with an error
C28_ConfirmedProfileLeadsToDataset ==
    (ProfileConfirmed /\ pc = "done") =>
        /\ Called("generate_initial_dataset")
        /\ outcome # "Exit(1)"

=============================================================================
